---- MODULE Spec2Model ----
(***************************************************************************)
(* The AI-tutor classroom's real-time core of learnify-fe:                 *)
(*   - useTeacherSpeech: the speech job queue, its processQueue workers    *)
(*     and the audio players they wait for;                                *)
(*   - ClassRoomPage: the streaming unit queue and its drain loop;         *)
(*   - mergeMessagesById: the message reconciler (a pure function);        *)
(*   - useChatSocket: the socket session, its token-refresh retry and its  *)
(*     messages;                                                           *)
(*   - handleStartLesson: the section-by-section lesson playback;          *)
(*   - useTeacherSpeech's viseme timeline and splitIntoChunks (a pure      *)
(*     function);                                                          *)
(*   - the chat input's speech flow, which awaits speak() and retries.     *)
(* Each component has its own specification; a specification keeps the     *)
(* variables of the other components at their initial values.              *)
(***************************************************************************)
EXTENDS Integers, Sequences, FiniteSets, TLC

VARIABLES
  \* ---- useTeacherSpeech ----
  queueRef,                 \* queueRef.current: the ids of the pending jobs
  synthesisInProgressRef,   \* synthesisInProgressRef.current
  isPlayingRef,             \* isPlayingRef.current
  audioPlayerRef,           \* audioPlayerRef.current: the worker whose player it is, 0 = null
  synthesizerRef,           \* synthesizerRef.current is not null
  isSynthesizerClosedRef,   \* isSynthesizerClosedRef.current
  speechState,              \* state: "idle" | "thinking" | "speaking" | "error"
  jobs,                     \* every speak() call so far: its chunks and its promise
  workers,                  \* every processQueue invocation that got past its guard
  sdkAvailable,             \* createSynthesizer succeeds (the SDK and its configuration are there)
  visemeAccumRef,           \* visemeAccumRef.current: the cumulative offsets, in ms
  visemeTimeOffsetRef,      \* visemeTimeOffsetRef.current, in ms
  \* ---- ClassRoomPage streaming ----
  messages,                 \* messages: the streamed entries, text as the units appended
  isStreaming,              \* isStreaming
  streamingQueueRef,        \* streamingQueueRef.current
  isProcessingQueueRef,     \* isProcessingQueueRef.current
  cancelled,                \* controllerRef.current.cancelled
  streamingMessageIdRef,    \* streamingMessageIdRef.current, 0 = null
  pendingRefetchAfterStreamingRef,
  selectedConversationId,   \* 0 = null
  refetchTimers,            \* armed 300 ms timers that will call refetchHistory
  refetches,                \* refetchHistory calls made by those timers
  drains,                   \* processStreamingQueue loops suspended in their wait
  nextUnit,                 \* units are numbered in the order enqueueText pushed them
  dropped,                  \* the units handleStop threw away
  stopPc,                   \* where the lesson was when handleStop last ran, "none" = never
  \* ---- mergeMessagesById ----
  existing,                 \* the first argument of a merge
  incoming,                 \* the second argument of a merge
  merged,                   \* mergeMessagesById(existing, incoming)
  remerged,                 \* mergeMessagesById(merged, incoming)
  arrival,                  \* <<t, c>>: a temporary and a confirmed copy with one key
  viaTempFirst,             \* existing merged with [t], the result merged with [c]
  viaConfirmedFirst,        \* existing merged with [c], the result merged with [t]
  mergePc,                  \* "input" | "merged" | "remerged" | "arrived"
  \* ---- useChatSocket ----
  socketRef,                \* socketRef.current: the socket's number, 0 = null
  sockets,                  \* every socket io() has made
  connected,                \* connected
  conversationId,           \* the conversationId option, 0 = null
  initPc,                   \* the running init effect: "history" | "token" | "done"
  orphanConnects,           \* connectSocket() calls awaiting a token, their effect cleaned up
  unmounted,                \* the hook has unmounted
  refreshing,               \* sockets whose connect_error handler awaits getSocketToken
  retryTimers,              \* armed 1000 ms timers that will call connectSocket(newToken)
  refreshRun,               \* token refreshes in the current run of auth connect_errors
  reconnectRun,             \* connectSocket(newToken) calls in that run
  chatMessages,             \* the hook's messages
  outbox,                   \* sendMessage events on their way to the server
  serverMessages,           \* the messages the server has stored
  currentUserId,            \* the id of the signed-in user
  lastEcho,                 \* <<temporary id, server id>> of the last echo handled
  sends,                    \* sendMessage calls so far
  switches,                 \* conversation changes so far
  \* ---- ClassRoomPage lesson playback ----
  lessonStartedByUser,      \* lessonStartedByUser
  lessonPc,                 \* handleStartLesson: "idle" | "fetching" | "speaking" |
                            \*   "polling" | "pause" | "done" | "failed"
  fetched,                  \* the sections as fetchSectionsMutation returned them
  lessonSections,           \* sections after the sort
  lessonIdx,                \* the section the loop is at
  posted,                   \* the section entries appended to the transcript, by section id
  narrated,                 \* the sections speak() was called for, by section id
  \* ---- splitIntoChunks ----
  itemText,                 \* the text argument, a sequence of characters
  maxChunkLength,           \* the maxLen argument
  itemChunks,               \* splitIntoChunks(text, maxLen)
  splitPc,                  \* "input" | "split"
  \* ---- the chat input's speech flow ----
  ttsPc,                    \* the flow: "idle" | "first" | "delay" | "retry" | "done"
  ttsJobs,                  \* the speak() calls of the flow, by job id
  ttsToasts,                \* the error toasts of the flow
  \* ---- ClassRoomPage transcript: questions, conversation change, history ----
  switchTimer,              \* the 80 ms timer of the conversation effect is armed
  switchRefetches,          \* refetchHistory calls made by that timer
  historyApplied,           \* fetched histories the mapping effect has set
  asked,                    \* the conversations with a question whose answer is due
  unitConv,                 \* unitConv[u]: the conversation unit u answers a question of
  questions,                \* questions asked so far
  convChanges,              \* changes of selectedConversationId so far
  \* ---- ClassRoomPage's own useTeacherSpeech instance ----
  lessonAudio,              \* its audio player: "none" | "playing"
  \* ---- tokenize and the drain loop's delay ----
  tokText,                  \* the text given to tokenize, a sequence of characters
  baseDelay,                \* opts.baseDelay, in ms
  tokens,                   \* tokenize(text)
  delays,                   \* the delay computed for each token, in ms
  tokPc                     \* "input" | "tokenized" | "paced"

speechVars == <<queueRef, synthesisInProgressRef, isPlayingRef, audioPlayerRef,
                synthesizerRef, isSynthesizerClosedRef, speechState, jobs, workers,
                sdkAvailable, visemeAccumRef, visemeTimeOffsetRef>>

streamVars == <<messages, isStreaming, streamingQueueRef, isProcessingQueueRef,
                cancelled, streamingMessageIdRef, pendingRefetchAfterStreamingRef,
                selectedConversationId, refetchTimers, refetches, drains,
                nextUnit, dropped, stopPc>>

mergeVars == <<existing, incoming, merged, remerged, arrival, viaTempFirst,
               viaConfirmedFirst, mergePc>>

socketVars == <<socketRef, sockets, connected, conversationId, initPc,
                orphanConnects, unmounted, refreshing, retryTimers, refreshRun,
                reconnectRun, chatMessages, outbox, serverMessages, currentUserId,
                lastEcho, sends, switches>>

lessonVars == <<lessonStartedByUser, lessonPc, fetched, lessonSections, lessonIdx,
                posted, narrated>>

splitVars == <<itemText, maxChunkLength, itemChunks, splitPc>>

ttsVars == <<ttsPc, ttsJobs, ttsToasts>>

transcriptVars == <<switchTimer, switchRefetches, historyApplied, asked, unitConv,
                    questions, convChanges>>

classroomVars == <<lessonAudio>>

tokenVars == <<tokText, baseDelay, tokens, delays, tokPc>>

\* The note window: the cached note that is selected, the draft state, the
\* hook's timeoutRef, the closure of the armed timer, the updates sent and
\* those not settled yet.
VARIABLES selectedNote, draft, timeoutRef, autosaveTimer, saves, pendingUpdates,
          noteUnmounted, edits

autosaveVars == <<selectedNote, draft, timeoutRef, autosaveTimer, saves,
                  pendingUpdates, noteUnmounted, edits>>

vars == <<speechVars, streamVars, mergeVars, socketVars, lessonVars, splitVars,
          ttsVars, transcriptVars, classroomVars, tokenVars, autosaveVars>>

\* What the events of one component leave alone.
exceptSpeech == <<streamVars, mergeVars, socketVars, lessonVars, splitVars, ttsVars,
  transcriptVars, classroomVars, tokenVars,
  autosaveVars>>
exceptStream == <<speechVars, mergeVars, socketVars, lessonVars, splitVars, ttsVars,
  transcriptVars, classroomVars, tokenVars,
  autosaveVars>>
exceptMerge == <<speechVars, streamVars, socketVars, lessonVars, splitVars, ttsVars,
  transcriptVars, classroomVars, tokenVars,
  autosaveVars>>
exceptSocket == <<speechVars, streamVars, mergeVars, lessonVars, splitVars, ttsVars,
  transcriptVars, classroomVars, tokenVars,
  autosaveVars>>
exceptLesson == <<speechVars, streamVars, mergeVars, socketVars, splitVars, ttsVars,
  transcriptVars, classroomVars, tokenVars,
  autosaveVars>>
exceptSplit == <<speechVars, streamVars, mergeVars, socketVars, lessonVars, ttsVars,
  transcriptVars, classroomVars, tokenVars,
  autosaveVars>>
exceptTts == <<streamVars, mergeVars, socketVars, lessonVars, splitVars,
  transcriptVars, classroomVars, tokenVars,
  autosaveVars>>
exceptTranscript == <<speechVars, mergeVars, socketVars, lessonVars, splitVars,
  ttsVars, classroomVars, tokenVars,
  autosaveVars>>
exceptClassroom == <<speechVars, streamVars, mergeVars, socketVars, splitVars,
  ttsVars, transcriptVars, tokenVars,
  autosaveVars>>
exceptAutosave == <<speechVars, streamVars, mergeVars, socketVars, lessonVars,
  splitVars, ttsVars, transcriptVars, classroomVars, tokenVars>>
exceptToken == <<speechVars, streamVars, mergeVars, socketVars, lessonVars, splitVars,
  ttsVars, transcriptVars, classroomVars,
  autosaveVars>>

\* ---------------------------------------------------------------- bounds
MaxSpeak == 3      \* speak() calls in one run
MaxChunks == 2     \* chunks splitIntoChunks gives one utterance
MaxUnits == 5      \* units enqueued in one run
MaxToks == 2       \* units tokenize gives one text
MaxLen == 3        \* messages in the two arguments of a merge together
MaxSockets == 7    \* sockets made in one run
MaxSends == 2      \* sendMessage calls in one run
MaxSwitches == 1   \* conversation changes in one run
MaxSections == 3   \* sections of one lesson
MaxText == 5       \* characters of a text given to splitIntoChunks
MaxChunkLength == 2 \* the largest maxLen given to splitIntoChunks
MaxEdits == 3      \* edits of the draft in one run
MaxQuestions == 2  \* questions asked in one run

\* ======================================================= useTeacherSpeech
JobIds == 1..MaxSpeak

\* A processQueue invocation: where it is suspended, the job it holds, the
\* chunk it is at.  Its audio player is folded in: pc "loading", "resuming"
\* (oncanplaythrough awaiting audioContext.resume()) and "playing" are the
\* player's states while speakChunk's promise is pending; live is FALSE once
\* stopAll has nulled the player's handlers and paused it.  reqClosed marks a
\* synthesis request whose synthesizer stopAll has closed.  visemes is the
\* chunk's visemesThisChunk: the chunk-local offsets, in ms.
IdleWorker ==
  [pc |-> "off", job |-> 0, chunk |-> 0, live |-> FALSE, reqClosed |-> FALSE,
   visemes |-> <<>>]

\* The default pause appended to a chunk's SSML, in ms.
DEFAULT_INTER_CHUNK_PAUSE == 200

\* What the engine reports for one chunk: the visemes' offsets from the start
\* of the chunk's audio, in the order of the events.
VisemeSets == {<<>>, <<0, 200>>}

\* audioPlayer.duration * 1000 when the player knows it, 0 when it does not
\* (duration is NaN or 0).
Durations == {0, 400}

InitSpeech ==
  /\ queueRef = <<>>
  /\ synthesisInProgressRef = FALSE
  /\ isPlayingRef = FALSE
  /\ audioPlayerRef = 0
  /\ synthesizerRef = FALSE
  /\ isSynthesizerClosedRef = FALSE
  /\ speechState = "idle"
  /\ jobs = <<>>
  /\ workers = [w \in JobIds |-> IdleWorker]
  /\ sdkAvailable \in BOOLEAN
  /\ visemeAccumRef = <<>>
  /\ visemeTimeOffsetRef = 0

\* The refs as one record, so that a handler's synchronous run (a callback
\* and the continuation of the worker it resumes) is one function on it.
SpeechRec ==
  [q |-> queueRef, flag |-> synthesisInProgressRef, playing |-> isPlayingRef,
   player |-> audioPlayerRef, synth |-> synthesizerRef,
   closed |-> isSynthesizerClosedRef, st |-> speechState, jobs |-> jobs,
   ws |-> workers, accum |-> visemeAccumRef, off |-> visemeTimeOffsetRef]

SetSpeechRefs(S) ==
  /\ queueRef' = S.q
  /\ synthesisInProgressRef' = S.flag
  /\ isPlayingRef' = S.playing
  /\ audioPlayerRef' = S.player
  /\ synthesizerRef' = S.synth
  /\ isSynthesizerClosedRef' = S.closed
  /\ speechState' = S.st
  /\ jobs' = S.jobs
  /\ workers' = S.ws
  /\ visemeAccumRef' = S.accum
  /\ visemeTimeOffsetRef' = S.off
  /\ UNCHANGED sdkAvailable

\* An event of the hook alone.
SetSpeech(S) ==
  /\ SetSpeechRefs(S)
  /\ UNCHANGED exceptSpeech

RECURSIVE NextItem(_, _)

\* processQueue's for-loop body for the worker's current chunk: make sure a
\* synthesizer exists (createSynthesizer fails without the SDK: the throw is
\* caught, the job rejected, and the while loop goes on), then speakChunk issues the
\* synthesis request and the worker is suspended on its promise.
StartChunk(S, w) ==
  LET needNew == ~S.synth \/ S.closed IN
  IF needNew /\ ~sdkAvailable
  THEN NextItem([S EXCEPT !.jobs[S.ws[w].job].promise = "rejected",
                          !.st = "error", !.flag = FALSE], w)
  ELSE [S EXCEPT !.synth = TRUE,
                 !.closed = IF needNew THEN FALSE ELSE S.closed,
                 !.st = "thinking",
                 !.ws[w].pc = "synth", !.ws[w].reqClosed = FALSE,
                 !.ws[w].live = FALSE, !.ws[w].visemes = <<>>]

\* processQueue's while loop head: leave when the queue is empty, else shift
\* the next job, reset the viseme accumulator and offset, and start its first
\* chunk.  The flag is set only once, before the loop: after the first job's
\* finally it stays false.
NextItem(S, w) ==
  IF S.q = <<>>
  THEN [S EXCEPT !.flag = FALSE, !.ws[w] = [IdleWorker EXCEPT !.pc = "done"]]
  ELSE StartChunk([S EXCEPT !.q = Tail(S.q), !.st = "thinking",
                            !.accum = <<>>, !.off = 0,
                            !.ws[w].job = Head(S.q), !.ws[w].chunk = 1],
                  w)

\* speakChunk resolved { success: false } for the worker's chunk: the job
\* keeps what failed ("disposed" when the engine's error says so).
ChunkFailed(S, w, kind) ==
  [S EXCEPT !.jobs[S.ws[w].job].failed = kind]

\* The end of a job's try block (after the last chunk, or after the break on
\* a failed chunk): state idle, item.resolve({ success: true }), finally.
FinishJob(S, w) ==
  NextItem([S EXCEPT !.st = "idle", !.jobs[S.ws[w].job].promise = "resolved",
                     !.flag = FALSE], w)

\* processQueue from its first line, called by speak for job j.
ProcessQueue(S, j) ==
  IF S.flag THEN S
  ELSE NextItem([S EXCEPT !.flag = TRUE], j)

\* speak(text) on the refs S: push the job, start processing if not already.
SpeakRefs(S, n) ==
  LET j == Len(S.jobs) + 1
  IN ProcessQueue([S EXCEPT
                     !.jobs = Append(S.jobs, [chunks |-> n, promise |-> "pending",
                                              preStop |-> FALSE, failed |-> "none",
                                              appended |-> <<>>]),
                     !.q = Append(S.q, j)],
                  j)

\* speak(text), called by anyone.
Speak(n) ==
  /\ Len(jobs) < MaxSpeak
  /\ SetSpeech(SpeakRefs(SpeechRec, n))

\* speakSsmlAsync's success callback: a new Audio() is created, loaded and
\* stored in audioPlayerRef.  A request whose synthesizer was closed does not
\* succeed.  vis is what the viseme handler has collected by then.
SynthSuccess(w, vis) ==
  /\ workers[w].pc = "synth"
  /\ ~workers[w].reqClosed
  /\ SetSpeech([SpeechRec EXCEPT !.ws[w].pc = "loading", !.ws[w].live = TRUE,
                                 !.ws[w].visemes = vis, !.player = w])

\* speakSsmlAsync's error callback: resolve({ success: false }); the worker
\* breaks out of the chunk loop and finishes the job.
SynthError(w, disposed) ==
  /\ workers[w].pc = "synth"
  /\ workers[w].reqClosed => disposed
  /\ SetSpeech(FinishJob(ChunkFailed([SpeechRec EXCEPT
                            !.closed = IF disposed THEN TRUE ELSE @,
                            !.st = "error", !.flag = FALSE, !.playing = FALSE],
                            w, IF disposed THEN "disposed" ELSE "other"),
                         w))

\* audioPlayer.oncanplaythrough, up to its await of audioContext.resume().
CanPlayThrough(w) ==
  /\ workers[w].pc = "loading"
  /\ workers[w].live
  /\ SetSpeech([SpeechRec EXCEPT !.ws[w].pc = "resuming"])

\* The chunk's visemes moved to the cumulative timeline: each offset plus
\* visemeTimeOffsetRef, pushed on visemeAccumRef.  The job keeps every entry
\* pushed for it, with the chunk it came from.
PushVisemes(S, w) ==
  LET adjusted == [i \in DOMAIN S.ws[w].visemes |-> S.ws[w].visemes[i] + S.off]
  IN [S EXCEPT !.accum = @ \o adjusted,
               !.jobs[S.ws[w].job].appended =
                  @ \o [i \in DOMAIN adjusted |-> <<S.ws[w].chunk, adjusted[i]>>]]

\* oncanplaythrough after the await: state speaking, isPlaying, the visemes
\* pushed, play().  play() rejects when the browser refuses it, and when
\* stopAll has emptied the player's src meanwhile; its catch resolves
\* { success: false }.
ResumeDone(w, playOk) ==
  /\ workers[w].pc = "resuming"
  /\ LET S0 == PushVisemes(SpeechRec, w) IN
     IF playOk /\ workers[w].live
     THEN SetSpeech([S0 EXCEPT !.st = "speaking", !.playing = TRUE,
                               !.ws[w].pc = "playing"])
     ELSE SetSpeech(FinishJob(ChunkFailed([S0 EXCEPT
                                 !.st = "error", !.playing = FALSE,
                                 !.flag = FALSE, !.ws[w].live = FALSE],
                                 w, "other"),
                              w))

\* The length of a chunk's audio as onended takes it: the player's duration,
\* else the last viseme's offset plus the inter-chunk pause, else 0.
DurMs(vis, dur) ==
  IF dur # 0 THEN dur
  ELSE IF vis # <<>> THEN vis[Len(vis)] + DEFAULT_INTER_CHUNK_PAUSE
  ELSE 0

\* audioPlayer.onended: the offset moves on by the chunk's length,
\* resolve({ success: true }); the worker goes into the 60 ms pause that
\* follows every chunk.
AudioEnded(w, dur) ==
  /\ workers[w].pc = "playing"
  /\ workers[w].live
  /\ SetSpeech([SpeechRec EXCEPT !.playing = FALSE, !.flag = FALSE,
                                 !.off = @ + DurMs(workers[w].visemes, dur),
                                 !.ws[w].pc = "pause", !.ws[w].live = FALSE,
                                 !.ws[w].visemes = <<>>])

\* audioPlayer.onerror.
AudioError(w) ==
  /\ workers[w].pc \in {"loading", "playing"}
  /\ workers[w].live
  /\ SetSpeech(FinishJob(ChunkFailed([SpeechRec EXCEPT
                            !.playing = FALSE, !.flag = FALSE, !.st = "error",
                            !.ws[w].live = FALSE],
                            w, "other"),
                         w))

\* The 60 ms timer after a chunk fires: next chunk, or the end of the job.
PauseDone(w) ==
  /\ workers[w].pc = "pause"
  /\ LET i == workers[w].chunk + 1
         S0 == [SpeechRec EXCEPT !.ws[w].chunk = i]
     IN IF i <= jobs[workers[w].job].chunks
        THEN SetSpeech(StartChunk(S0, w))
        ELSE SetSpeech(FinishJob(SpeechRec, w))

\* stopAll: empty the queue, clear the flags, detach and pause the player in
\* audioPlayerRef, close the synthesizer, state idle.  The workers are not
\* told: one suspended on a player stays suspended, the others go on.
\* preStop marks the jobs submitted before this stop.
StopAllRefs(S) ==
  [S EXCEPT
     !.q = <<>>, !.flag = FALSE, !.playing = FALSE, !.player = 0,
     !.synth = FALSE, !.closed = TRUE, !.st = "idle",
     !.jobs = [j \in DOMAIN S.jobs |-> [S.jobs[j] EXCEPT !.preStop = TRUE]],
     !.ws = [w \in JobIds |->
       IF S.ws[w].pc \in {"loading", "resuming", "playing"} /\ S.player = w
       THEN [S.ws[w] EXCEPT !.live = FALSE]
       ELSE IF S.ws[w].pc = "synth" /\ S.synth /\ ~S.closed
       THEN [S.ws[w] EXCEPT !.reqClosed = TRUE]
       ELSE S.ws[w]]]

StopAll ==
  /\ SetSpeechRefs(StopAllRefs(SpeechRec))
  /\ UNCHANGED exceptSpeech

\* The queue, its workers and their players, with an engine that reports no
\* visemes and players that know no duration.
NextSpeech ==
  \/ \E n \in 1..MaxChunks : Speak(n)
  \/ \E w \in JobIds : SynthSuccess(w, <<>>)
  \/ \E w \in JobIds, d \in BOOLEAN : SynthError(w, d)
  \/ \E w \in JobIds : CanPlayThrough(w)
  \/ \E w \in JobIds, p \in BOOLEAN : ResumeDone(w, p)
  \/ \E w \in JobIds : AudioEnded(w, 0)
  \/ \E w \in JobIds : AudioError(w)
  \/ \E w \in JobIds : PauseDone(w)
  \/ StopAll

\* The viseme timeline: every chunk is synthesized and played to its end, the
\* engine reports visemes, nobody calls stopAll.
NextViseme ==
  \/ \E n \in 1..MaxChunks : Speak(n)
  \/ \E w \in JobIds, vis \in VisemeSets : SynthSuccess(w, vis)
  \/ \E w \in JobIds : CanPlayThrough(w)
  \/ \E w \in JobIds : ResumeDone(w, TRUE)
  \/ \E w \in JobIds, dur \in Durations : AudioEnded(w, dur)
  \/ \E w \in JobIds : PauseDone(w)

\* ================================================== ClassRoomPage streaming
InitStream ==
  /\ messages = <<>>
  /\ isStreaming = FALSE
  /\ streamingQueueRef = <<>>
  /\ isProcessingQueueRef = FALSE
  /\ cancelled = FALSE
  /\ streamingMessageIdRef = 0
  /\ pendingRefetchAfterStreamingRef = FALSE
  /\ selectedConversationId \in {0, 1}
  /\ refetchTimers = 0
  /\ refetches = 0
  /\ drains = 0
  /\ nextUnit = 1
  /\ dropped = {}
  /\ stopPc = "none"


Range(f) == {f[i] : i \in DOMAIN f}

RECURSIVE Flatten(_)
\* The units of a list of messages, in display order.
Flatten(ms) == IF ms = <<>> THEN <<>> ELSE Head(ms).text \o Flatten(Tail(ms))

\* The record of the refs and state a synchronous run of the drain touches.
StreamRec ==
  [msgs |-> messages, q |-> streamingQueueRef, live |-> streamingMessageIdRef]

\* appendTokenToStreamingMessage(token): the first unit creates the live
\* message under a fresh temp: id, the others are appended to the message
\* that has the live id (to none when no message has it).
AppendTokenToStreamingMessage(R, token) ==
  IF R.live = 0
  THEN LET id == Len(R.msgs) + 1 IN
       [R EXCEPT !.live = id,
                 !.msgs = Append(R.msgs, [id |-> id, role |-> "assistant",
                                           text |-> <<token>>])]
  ELSE [R EXCEPT !.msgs = [i \in DOMAIN R.msgs |->
                   IF R.msgs[i].id = R.live
                   THEN [R.msgs[i] EXCEPT !.text = Append(@, token)]
                   ELSE R.msgs[i]]]

\* One turn of processStreamingQueue's while loop, up to its wait: shift a
\* unit and append it.
DrainOne(R) ==
  AppendTokenToStreamingMessage([R EXCEPT !.q = Tail(R.q)], Head(R.q))

\* processStreamingQueue's finally block.
DrainFinally ==
  /\ isProcessingQueueRef' = FALSE
  /\ isStreaming' = FALSE
  /\ streamingMessageIdRef' = 0
  /\ drains' = drains - 1
  /\ IF pendingRefetchAfterStreamingRef
     THEN /\ pendingRefetchAfterStreamingRef' = FALSE
          /\ refetchTimers' = refetchTimers + 1
     ELSE UNCHANGED <<pendingRefetchAfterStreamingRef, refetchTimers>>
  /\ UNCHANGED <<messages, streamingQueueRef, cancelled>>

\* processStreamingQueue without its isProcessingQueueRef guard.
ProcessStreamingQueueUnguarded(q) ==
  LET R == DrainOne([StreamRec EXCEPT !.q = q]) IN
  /\ isProcessingQueueRef' = TRUE
  /\ isStreaming' = TRUE
  /\ cancelled' = FALSE
  /\ messages' = R.msgs
  /\ streamingQueueRef' = R.q
  /\ streamingMessageIdRef' = R.live
  /\ drains' = drains + 1

\* processStreamingQueue from its first line to its first wait, given the
\* queue q enqueueText has just pushed to (never empty there).
ProcessStreamingQueue(q) ==
  IF isProcessingQueueRef
  THEN /\ streamingQueueRef' = q
       /\ UNCHANGED <<messages, isStreaming, isProcessingQueueRef, cancelled,
                      streamingMessageIdRef, drains>>
  ELSE LET R == DrainOne([StreamRec EXCEPT !.q = q]) IN
       /\ isProcessingQueueRef' = TRUE
       /\ isStreaming' = TRUE
       /\ cancelled' = FALSE
       /\ messages' = R.msgs
       /\ streamingQueueRef' = R.q
       /\ streamingMessageIdRef' = R.live
       /\ drains' = drains + 1

\* enqueueText(text) for a text of k >= 1 units.
EnqueueText(k) ==
  /\ nextUnit + k - 1 <= MaxUnits
  /\ nextUnit' = nextUnit + k
  /\ ProcessStreamingQueue(streamingQueueRef \o [i \in 1..k |-> nextUnit + i - 1])

\* onChunk: ai-chat:assistant_chunk with a text of k units.
OnChunkRefs(k) ==
  /\ EnqueueText(k)
  /\ UNCHANGED <<pendingRefetchAfterStreamingRef, selectedConversationId,
                 refetchTimers, refetches, dropped, stopPc>>

OnChunk(k) ==
  /\ OnChunkRefs(k)
  /\ UNCHANGED exceptStream

\* onFinal: ai-chat:assistant_message / assistant_done; k = 0 is no text.
OnFinalRefs(k) ==
  /\ IF k > 0 THEN EnqueueText(k)
     ELSE UNCHANGED <<messages, isStreaming, streamingQueueRef,
                      isProcessingQueueRef, cancelled, streamingMessageIdRef,
                      drains, nextUnit>>
  /\ pendingRefetchAfterStreamingRef' =
       IF selectedConversationId # 0 THEN TRUE ELSE pendingRefetchAfterStreamingRef
  /\ UNCHANGED <<selectedConversationId, refetchTimers, refetches, dropped, stopPc>>

OnFinal(k) ==
  /\ OnFinalRefs(k)
  /\ UNCHANGED exceptStream

\* A drain loop wakes from its wait (the delay elapsed, or the 30 ms poll saw
\* the cancellation): next unit, or the finally block.
DrainWake ==
  /\ drains > 0
  /\ IF streamingQueueRef # <<>> /\ ~cancelled
     THEN LET R == DrainOne(StreamRec) IN
          /\ messages' = R.msgs
          /\ streamingQueueRef' = R.q
          /\ streamingMessageIdRef' = R.live
          /\ UNCHANGED <<isStreaming, isProcessingQueueRef, cancelled,
                         pendingRefetchAfterStreamingRef, refetchTimers, drains>>
     ELSE DrainFinally
  /\ UNCHANGED <<selectedConversationId, refetches, nextUnit, dropped, stopPc,
                 exceptStream>>

\* handleStop that sets the flag and leaves the queue as it is.
HandleStopKeepsQueue ==
  /\ cancelled' = TRUE
  /\ isStreaming' = FALSE
  /\ dropped' = dropped \cup Range(streamingQueueRef)
  /\ stopPc' = lessonPc
  /\ UNCHANGED <<messages, streamingQueueRef, isProcessingQueueRef,
                 streamingMessageIdRef, pendingRefetchAfterStreamingRef,
                 selectedConversationId, refetchTimers, refetches, drains,
                 nextUnit, exceptStream>>

\* handleStop.
HandleStop ==
  /\ cancelled' = TRUE
  /\ isStreaming' = FALSE
  /\ streamingQueueRef' = <<>>
  /\ dropped' = dropped \cup Range(streamingQueueRef)
  /\ stopPc' = lessonPc
  /\ UNCHANGED <<messages, isProcessingQueueRef, streamingMessageIdRef,
                 pendingRefetchAfterStreamingRef, selectedConversationId,
                 refetchTimers, refetches, drains, nextUnit, exceptStream>>

\* The 300 ms timer of the finally block fires: refetchHistory().
RefetchTimerFire ==
  /\ refetchTimers > 0
  /\ refetchTimers' = refetchTimers - 1
  /\ refetches' = refetches + 1
  /\ UNCHANGED <<messages, isStreaming, streamingQueueRef, isProcessingQueueRef,
                 cancelled, streamingMessageIdRef, pendingRefetchAfterStreamingRef,
                 selectedConversationId, drains, nextUnit, dropped, stopPc, exceptStream>>

NextStream ==
  \/ \E k \in 1..MaxToks : OnChunk(k)
  \/ \E k \in 0..MaxToks : OnFinal(k)
  \/ DrainWake
  \/ HandleStop
  \/ RefetchTimerFire
\* ====================================================== mergeMessagesById
\* A message id is a tagged pair: <<"temp", n>> is the string "temp:n",
\* <<"srv", n>> a server id.  A text is the sequence of its characters; no
\* text here holds a ':', so a normalized text never equals an "id:" key.
IsTemp(id) == id[1] = "temp"

Pool ==
  { [id |-> <<"temp", 1>>, role |-> "user",      text |-> <<"h">>,           ts |-> 100],
    [id |-> <<"srv", 9>>,  role |-> "user",      text |-> <<"h", " ">>,      ts |-> 105],
    [id |-> <<"srv", 2>>,  role |-> "assistant", text |-> <<"b", " ", "!">>, ts |-> 105],
    [id |-> <<"temp", 3>>, role |-> "user",      text |-> <<" ", "h">>,      ts |-> 105],
    [id |-> <<"srv", 4>>,  role |-> "assistant", text |-> <<>>,              ts |-> 100],
    [id |-> <<"srv", 5>>,  role |-> "user",      text |-> <<"h">>,           ts |-> 105],
    [id |-> <<"srv", 6>>,  role |-> "assistant", text |-> <<"h", "\n", " ">>, ts |-> 100],
    [id |-> <<"temp", 7>>, role |-> "assistant", text |-> <<"b", "!">>,      ts |-> 110] }

SeqsUpTo(n) == UNION {[1..k -> Pool] : k \in 0..n}

IsSpace(c) == c \in {" ", "\n", "\r", "\t"}
IsPunct(c) == c \in {",", ".", "!", "?", ":", ";"}

\* s.replace(/[\r\n]+/g, ' ').replace(/\s+/g, ' ')
RECURSIVE Collapse(_)
Collapse(s) ==
  IF s = <<>> THEN <<>>
  ELSE IF IsSpace(Head(s))
       THEN IF Len(s) > 1 /\ IsSpace(s[2])
            THEN Collapse(Tail(s))
            ELSE <<" ">> \o Collapse(Tail(s))
       ELSE <<Head(s)>> \o Collapse(Tail(s))

\* .trim() of a text whose whitespace runs are collapsed
Trim(s) ==
  LET a == IF s # <<>> /\ IsSpace(s[1]) THEN Tail(s) ELSE s
  IN  IF a # <<>> /\ IsSpace(a[Len(a)]) THEN SubSeq(a, 1, Len(a) - 1) ELSE a

\* t.replace(/\s+([,\.!?:;])/g, '$1')
RECURSIVE Unspace(_)
Unspace(s) ==
  IF s = <<>> THEN <<>>
  ELSE IF IsSpace(Head(s)) /\ Len(s) > 1 /\ IsPunct(s[2])
       THEN Unspace(Tail(s))
       ELSE <<Head(s)>> \o Unspace(Tail(s))

normalizeText(s) == Unspace(Trim(Collapse(s)))

\* keyFor: the normalized text, or "id:" + id when that is empty.
keyFor(msg) ==
  LET n == normalizeText(msg.text)
  IN  IF n # <<>> THEN [kind |-> "text", text |-> n, id |-> <<"", 0>>]
      ELSE [kind |-> "id", text |-> <<>>, id |-> msg.id]

\* The Map: its entries in insertion order.
MapHas(map, key) == \E i \in DOMAIN map : map[i].key = key
MapGet(map, key) == map[CHOOSE i \in DOMAIN map : map[i].key = key].msg
MapSet(map, key, msg) ==
  IF MapHas(map, key)
  THEN [map EXCEPT ![CHOOSE i \in DOMAIN map : map[i].key = key] =
                      [key |-> key, msg |-> msg]]
  ELSE Append(map, [key |-> key, msg |-> msg])

\* setWithPriority with the timestamp rule alone.
setWithPriorityByTs(map, msg) ==
  LET key == keyFor(msg) IN
  IF ~MapHas(map, key) THEN MapSet(map, key, msg)
  ELSE IF msg.ts >= MapGet(map, key).ts THEN MapSet(map, key, msg) ELSE map

setWithPriority(map, msg) ==
  LET key == keyFor(msg) IN
  IF ~MapHas(map, key) THEN MapSet(map, key, msg)
  ELSE LET prev == MapGet(map, key)
           prevIsTemp == IsTemp(prev.id)
           curIsTemp == IsTemp(msg.id)
       IN  IF prevIsTemp /\ ~curIsTemp THEN MapSet(map, key, msg)
           ELSE IF ~prevIsTemp /\ curIsTemp THEN map
           ELSE IF msg.ts >= prev.ts THEN MapSet(map, key, msg)
           ELSE map

\* for (const m of list) setWithPriority(m)
RECURSIVE SetAll(_, _)
SetAll(map, list) ==
  IF list = <<>> THEN map
  ELSE SetAll(setWithPriority(map, Head(list)), Tail(list))

\* One step of a sort that puts m before the entries of its timestamp.
InsertBeforeTies(sorted, m) ==
  LET k == Cardinality({i \in DOMAIN sorted : sorted[i].ts < m.ts})
  IN  SubSeq(sorted, 1, k) \o <<m>> \o SubSeq(sorted, k + 1, Len(sorted))

\* One step of arr.sort((a, b) => a.ts - b.ts): the sort is stable, so m goes
\* after the entries of its timestamp that came before it.
InsertByTs(sorted, m) ==
  LET k == Cardinality({i \in DOMAIN sorted : sorted[i].ts <= m.ts})
  IN  SubSeq(sorted, 1, k) \o <<m>> \o SubSeq(sorted, k + 1, Len(sorted))

RECURSIVE SortByTs(_)
SortByTs(arr) ==
  IF arr = <<>> THEN <<>>
  ELSE InsertByTs(SortByTs(SubSeq(arr, 1, Len(arr) - 1)), arr[Len(arr)])

mergeMessagesById(a, b) ==
  LET map == SetAll(SetAll(<<>>, a), b)
  IN  SortByTs([i \in DOMAIN map |-> map[i].msg])

InitMerge(a, b) ==
  /\ existing = a
  /\ incoming = b
  /\ merged = <<>>
  /\ remerged = <<>>
  /\ arrival = <<>>
  /\ viaTempFirst = <<>>
  /\ viaConfirmedFirst = <<>>
  /\ mergePc = "input"

\* mergeMessagesById(existing, incoming)
MergeCall ==
  /\ mergePc = "input"
  /\ merged' = mergeMessagesById(existing, incoming)
  /\ mergePc' = "merged"
  /\ UNCHANGED <<existing, incoming, remerged, arrival, viaTempFirst,
                 viaConfirmedFirst, exceptMerge>>

\* mergeMessagesById(merged, incoming)
MergeAgain ==
  /\ mergePc = "merged"
  /\ remerged' = mergeMessagesById(merged, incoming)
  /\ mergePc' = "remerged"
  /\ UNCHANGED <<existing, incoming, merged, arrival, viaTempFirst,
                 viaConfirmedFirst, exceptMerge>>

\* A temporary copy t and a confirmed copy c with one key reach existing one
\* after the other, in both orders.
MergeArrivals(t, c) ==
  /\ mergePc = "input"
  /\ IsTemp(t.id) /\ ~IsTemp(c.id)
  /\ keyFor(t) = keyFor(c)
  /\ arrival' = <<t, c>>
  /\ viaTempFirst' = mergeMessagesById(mergeMessagesById(existing, <<t>>), <<c>>)
  /\ viaConfirmedFirst' = mergeMessagesById(mergeMessagesById(existing, <<c>>), <<t>>)
  /\ mergePc' = "arrived"
  /\ UNCHANGED <<existing, incoming, merged, remerged, exceptMerge>>

NextMerge ==
  \/ MergeCall
  \/ MergeAgain
  \/ \E t, c \in Pool : MergeArrivals(t, c)

\* =========================================================== useChatSocket
reconnectionAttempts == 5

SocketIds == 1..MaxSockets

\* The conversations the window can show; 0 is null.
Conversations == {1, 2}

\* The texts the user types, trimmed by handleSend.
Contents == {"x", "y"}

\* auth.user.id: the id the server stamps on the user's messages.
UserIds == {"u1", "me"}

InitSocket ==
  /\ socketRef = 0
  /\ sockets = <<>>
  /\ connected = FALSE
  /\ conversationId \in Conversations \cup {0}
  /\ initPc = IF conversationId = 0 THEN "done" ELSE "history"
  /\ orphanConnects = <<>>
  /\ unmounted = FALSE
  /\ refreshing = {}
  /\ retryTimers = <<>>
  /\ refreshRun = 0
  /\ reconnectRun = 0
  /\ chatMessages = <<>>
  /\ outbox = <<>>
  /\ serverMessages = <<>>
  /\ currentUserId \in UserIds
  /\ lastEcho = <<>>
  /\ sends = 0
  /\ switches = 0

\* io(...): a socket that connects by itself, its listeners wired; attempts
\* is the number of reconnections its manager has scheduled, back at 0 once
\* the socket is closed.  conv is the conversationId its handlers closed
\* over, room the conversation of the last joinConversation it sent, buffer
\* what was emitted on it while it was not connected.  A closed socket with
\* no handler pending keeps none of these.
NewSocket(conv) ==
  [status |-> "connecting", listeners |-> TRUE, attempts |-> 0,
   conv |-> conv, room |-> 0, buffer |-> <<>>]

\* removeAllListeners(); disconnect() on socketRef.current
Teardown(ss) ==
  IF socketRef = 0 THEN ss
  ELSE [ss EXCEPT ![socketRef].listeners = FALSE,
                  ![socketRef].status = "closed",
                  ![socketRef].attempts = 0,
                  ![socketRef].conv = IF socketRef \in refreshing THEN @ ELSE 0,
                  ![socketRef].room = 0,
                  ![socketRef].buffer = <<>>]

\* connectSocket that makes its socket beside the one in socketRef.
ConnectSocketBeside(conv) ==
  /\ Len(sockets) < MaxSockets
  /\ sockets' = Append(sockets, NewSocket(conv))
  /\ socketRef' = Len(sockets) + 1

\* connectSocket once it holds a token: the old socket loses its listeners and
\* is disconnected, a new one is made and kept in socketRef.
ConnectSocket(conv) ==
  /\ Len(sockets) < MaxSockets
  /\ sockets' = Append(Teardown(sockets), NewSocket(conv))
  /\ socketRef' = Len(sockets) + 1

IsConnected(s) == s # 0 /\ sockets[s].status = "connected"

\* The init effect: getMessages settles.  The list becomes the history; a
\* connected socket joins the conversation, otherwise connectSocket() is
\* called and awaits getSocketToken.
HistoryLoaded(ok) ==
  /\ initPc = "history"
  /\ IF ok
     THEN /\ chatMessages' = SelectSeq(serverMessages,
                               LAMBDA m : m.conversationId = conversationId)
          /\ IF IsConnected(socketRef)
             THEN /\ sockets' = [sockets EXCEPT ![socketRef].room = conversationId]
                  /\ initPc' = "done"
             ELSE /\ initPc' = "token"
                  /\ UNCHANGED sockets
     ELSE /\ initPc' = "done"
          /\ UNCHANGED <<chatMessages, sockets>>
  /\ UNCHANGED <<socketRef, connected, conversationId, orphanConnects, unmounted,
                 refreshing, retryTimers, refreshRun, reconnectRun, outbox,
                 serverMessages, currentUserId, lastEcho, sends, switches,
                 exceptSocket>>

\* connectSocket() of the running init effect: getSocketToken settles.
TokenFetched(ok) ==
  /\ initPc = "token"
  /\ initPc' = "done"
  /\ IF ok THEN ConnectSocket(conversationId) ELSE UNCHANGED <<socketRef, sockets>>
  /\ UNCHANGED <<connected, conversationId, orphanConnects, unmounted, refreshing,
                 retryTimers, refreshRun, reconnectRun, chatMessages, outbox,
                 serverMessages, currentUserId, lastEcho, sends, switches,
                 exceptSocket>>

\* connectSocket() of an init effect that was cleaned up while it awaited
\* getSocketToken: the token settles.
OrphanTokenFetched(ok) ==
  /\ orphanConnects # <<>>
  /\ orphanConnects' = Tail(orphanConnects)
  /\ IF ok THEN ConnectSocket(Head(orphanConnects))
     ELSE UNCHANGED <<socketRef, sockets>>
  /\ UNCHANGED <<connected, conversationId, initPc, unmounted, refreshing,
                 retryTimers, refreshRun, reconnectRun, chatMessages, outbox,
                 serverMessages, currentUserId, lastEcho, sends, switches,
                 exceptSocket>>

\* The server accepts socket s: its "connect" listener runs and joins the
\* conversation it closed over; what was emitted meanwhile is sent.
SocketConnect(s) ==
  /\ s \in DOMAIN sockets
  /\ sockets[s].status = "connecting"
  /\ sockets' = [sockets EXCEPT ![s].status = "connected", ![s].attempts = 0,
                                ![s].buffer = <<>>,
                                ![s].room = IF sockets[s].listeners /\ sockets[s].conv # 0
                                            THEN sockets[s].conv ELSE @]
  /\ outbox' = outbox \o sockets[s].buffer
  /\ connected' = IF sockets[s].listeners THEN TRUE ELSE connected
  /\ refreshRun' = 0
  /\ reconnectRun' = 0
  /\ UNCHANGED <<socketRef, conversationId, initPc, orphanConnects, unmounted,
                 refreshing, retryTimers, chatMessages, serverMessages,
                 currentUserId, lastEcho, sends, switches, exceptSocket>>

\* The connection of socket s drops: its "disconnect" listener runs and its
\* manager starts to reconnect.
SocketDisconnect(s) ==
  /\ s \in DOMAIN sockets
  /\ sockets[s].status = "connected"
  /\ sockets' = [sockets EXCEPT ![s].status = "connecting", ![s].room = 0]
  /\ connected' = IF sockets[s].listeners THEN FALSE ELSE connected
  /\ UNCHANGED <<socketRef, conversationId, initPc, orphanConnects, unmounted,
                 refreshing, retryTimers, refreshRun, reconnectRun, chatMessages,
                 outbox, serverMessages, currentUserId, lastEcho, sends, switches,
                 exceptSocket>>

\* connect_error of socket s, the connection could not be made: the text
\* names no auth or token problem, the handler does nothing, and the manager
\* schedules a reconnection unless reconnectionAttempts are used up.
ConnectErrorTransport(s) ==
  /\ s \in DOMAIN sockets
  /\ sockets[s].status = "connecting"
  /\ sockets' = IF sockets[s].attempts < reconnectionAttempts
                THEN [sockets EXCEPT ![s].attempts = @ + 1]
                ELSE [sockets EXCEPT ![s].status = "closed", ![s].attempts = 0,
                                     ![s].conv = 0, ![s].buffer = <<>>]
  /\ refreshRun' = 0
  /\ reconnectRun' = 0
  /\ UNCHANGED <<socketRef, connected, conversationId, initPc, orphanConnects,
                 unmounted, refreshing, retryTimers, chatMessages, outbox,
                 serverMessages, currentUserId, lastEcho, sends, switches,
                 exceptSocket>>

\* connect_error of socket s, the server refused the token: the manager does
\* not reconnect; the handler calls getSocketToken and awaits it.
ConnectErrorAuth(s) ==
  /\ s \in DOMAIN sockets
  /\ sockets[s].status = "connecting"
  /\ sockets[s].listeners
  /\ refreshRun < MaxSockets
  /\ sockets' = [sockets EXCEPT ![s].status = "denied"]
  /\ refreshing' = refreshing \cup {s}
  /\ refreshRun' = refreshRun + 1
  /\ UNCHANGED <<socketRef, connected, conversationId, initPc, orphanConnects,
                 unmounted, retryTimers, reconnectRun, chatMessages, outbox,
                 serverMessages, currentUserId, lastEcho, sends, switches,
                 exceptSocket>>

\* The handler's getSocketToken resolves: socket.disconnect() and the timer,
\* which will call the connectSocket the handler closed over.
TokenRefreshed(s) ==
  /\ s \in refreshing
  /\ refreshing' = refreshing \ {s}
  /\ sockets' = [sockets EXCEPT ![s].status = "closed", ![s].attempts = 0,
                                ![s].conv = 0, ![s].room = 0, ![s].buffer = <<>>]
  /\ retryTimers' = Append(retryTimers, sockets[s].conv)
  /\ UNCHANGED <<socketRef, connected, conversationId, initPc, orphanConnects,
                 unmounted, refreshRun, reconnectRun, chatMessages, outbox,
                 serverMessages, currentUserId, lastEcho, sends, switches,
                 exceptSocket>>

\* The handler's getSocketToken rejects: the catch logs.
TokenRefreshFailed(s) ==
  /\ s \in refreshing
  /\ refreshing' = refreshing \ {s}
  /\ sockets' = IF sockets[s].status = "closed"
                THEN [sockets EXCEPT ![s].conv = 0] ELSE sockets
  /\ UNCHANGED <<socketRef, connected, conversationId, initPc,
                 orphanConnects, unmounted, retryTimers, refreshRun, reconnectRun,
                 chatMessages, outbox, serverMessages, currentUserId, lastEcho,
                 sends, switches, exceptSocket>>

\* The 1000 ms timer fires: connectSocket(newToken).
RetryTimerFire ==
  /\ retryTimers # <<>>
  /\ retryTimers' = Tail(retryTimers)
  /\ ConnectSocket(Head(retryTimers))
  /\ reconnectRun' = reconnectRun + 1
  /\ UNCHANGED <<connected, conversationId, initPc, orphanConnects, unmounted,
                 refreshing, refreshRun, chatMessages, outbox, serverMessages,
                 currentUserId, lastEcho, sends, switches, exceptSocket>>

\* conversationId changes to c: the cleanup of the running init effect, the
\* new init effect up to its await, and the re-join effect.
SwitchConversation(c) ==
  /\ ~unmounted
  /\ c # conversationId
  /\ switches < MaxSwitches
  /\ switches' = switches + 1
  /\ conversationId' = c
  /\ orphanConnects' = IF initPc = "token" THEN Append(orphanConnects, conversationId)
                       ELSE orphanConnects
  /\ initPc' = IF c = 0 THEN "done" ELSE "history"
  /\ chatMessages' = IF c = 0 THEN <<>> ELSE chatMessages
  /\ sockets' = IF c # 0 /\ IsConnected(socketRef)
                THEN [sockets EXCEPT ![socketRef].room = c] ELSE sockets
  /\ UNCHANGED <<socketRef, connected, unmounted, refreshing, retryTimers,
                 refreshRun, reconnectRun, outbox, serverMessages, currentUserId,
                 lastEcho, sends, exceptSocket>>

\* The hook unmounts: the cleanup of the init effect and the cleanup effect.
Unmount ==
  /\ ~unmounted
  /\ unmounted' = TRUE
  /\ orphanConnects' = IF initPc = "token" THEN Append(orphanConnects, conversationId)
                       ELSE orphanConnects
  /\ initPc' = "done"
  /\ sockets' = Teardown(sockets)
  /\ socketRef' = 0
  /\ UNCHANGED <<connected, conversationId, refreshing, retryTimers, refreshRun,
                 reconnectRun, chatMessages, outbox, serverMessages, currentUserId,
                 lastEcho, sends, switches, exceptSocket>>

\* sendMessage(content): the temporary entry, then the emit, which the
\* socket sends when it is connected and keeps while it is connecting.
SendMessage(content) ==
  /\ ~unmounted
  /\ socketRef # 0
  /\ conversationId # 0
  /\ sends < MaxSends
  /\ sends' = sends + 1
  /\ chatMessages' = Append(chatMessages,
       [id |-> <<"temp-", sends + 1>>, conversationId |-> conversationId,
        senderId |-> "me", content |-> content])
  /\ LET pkt == [conversationId |-> conversationId, content |-> content,
                 temp |-> <<"temp-", sends + 1>>]
     IN  CASE sockets[socketRef].status = "connected" ->
                /\ outbox' = Append(outbox, pkt)
                /\ UNCHANGED sockets
           [] sockets[socketRef].status = "connecting" ->
                /\ sockets' = [sockets EXCEPT ![socketRef].buffer = Append(@, pkt)]
                /\ UNCHANGED outbox
           [] OTHER -> UNCHANGED <<sockets, outbox>>
  /\ UNCHANGED <<socketRef, connected, conversationId, initPc, orphanConnects,
                 unmounted, refreshing, retryTimers, refreshRun, reconnectRun,
                 serverMessages, currentUserId, lastEcho, switches, exceptSocket>>

\* The "message" listener's setMessages updater.
OnMessage(prev, m) ==
  LET withoutTemp ==
        SelectSeq(prev, LAMBDA p : ~(/\ p.id[1] = "temp-"
                                     /\ p.content = m.content
                                     /\ p.senderId = m.senderId))
  IN  IF \E i \in DOMAIN withoutTemp : withoutTemp[i].id = m.id
      THEN withoutTemp
      ELSE Append(withoutTemp, m)

\* The server stores a sent message under the sender's user id and echoes it
\* as a "message" event; a connected socket with listeners handles it.
ServerEcho ==
  /\ outbox # <<>>
  /\ LET pkt == Head(outbox)
         m == [id |-> <<"srv", Len(serverMessages) + 1>>,
               conversationId |-> pkt.conversationId,
               senderId |-> currentUserId, content |-> pkt.content]
         delivered == \E s \in DOMAIN sockets :
                        sockets[s].status = "connected" /\ sockets[s].listeners
     IN  /\ outbox' = Tail(outbox)
         /\ serverMessages' = Append(serverMessages, m)
         /\ chatMessages' = IF delivered THEN OnMessage(chatMessages, m)
                            ELSE chatMessages
         /\ lastEcho' = IF delivered THEN <<pkt.temp, m.id>> ELSE lastEcho
  /\ UNCHANGED <<socketRef, sockets, connected, conversationId, initPc,
                 orphanConnects, unmounted, refreshing, retryTimers, refreshRun,
                 reconnectRun, currentUserId, sends, switches, exceptSocket>>

\* The connection's events: the socket's life, conversation changes, unmount.
NextSocket ==
  \/ \E ok \in BOOLEAN : HistoryLoaded(ok)
  \/ \E ok \in BOOLEAN : TokenFetched(ok)
  \/ \E ok \in BOOLEAN : OrphanTokenFetched(ok)
  \/ \E s \in SocketIds : SocketConnect(s)
  \/ \E s \in SocketIds : SocketDisconnect(s)
  \/ \E s \in SocketIds : ConnectErrorTransport(s)
  \/ \E s \in SocketIds : ConnectErrorAuth(s)
  \/ \E s \in SocketIds : TokenRefreshed(s)
  \/ \E s \in SocketIds : TokenRefreshFailed(s)
  \/ RetryTimerFire
  \/ \E c \in Conversations \cup {0} : SwitchConversation(c)
  \/ Unmount

\* The chat's events: messages sent and echoed over a socket the server
\* accepts, across drops of the connection and conversation changes.
NextChat ==
  \/ \E ok \in BOOLEAN : HistoryLoaded(ok)
  \/ \E ok \in BOOLEAN : TokenFetched(ok)
  \/ \E ok \in BOOLEAN : OrphanTokenFetched(ok)
  \/ \E s \in SocketIds : SocketConnect(s)
  \/ \E s \in SocketIds : SocketDisconnect(s)
  \/ \E c \in Conversations \cup {0} : SwitchConversation(c)
  \/ \E content \in Contents : SendMessage(content)
  \/ ServerEcho

\* ===================================================== handleStartLesson
\* A fetched section: its id, its order (<<>> when it has none) and whether
\* its normalized content is non-empty.
SectionPool ==
  { [id |-> 1, order |-> <<2>>, content |-> TRUE],
    [id |-> 2, order |-> <<1>>, content |-> TRUE],
    [id |-> 3, order |-> <<1>>, content |-> FALSE],
    [id |-> 4, order |-> <<>>,  content |-> TRUE] }

\* The lists a fetch can return: no section twice.
Responses ==
  {r \in UNION {[1..k -> SectionPool] : k \in 0..MaxSections} :
     \A i, j \in DOMAIN r : i # j => r[i] # r[j]}

\* Number(a?.order ?? 0)
OrderOf(sec) == IF sec.order = <<>> THEN 0 ELSE sec.order[1]

\* One step of a sort that puts sec before the sections of its order.
InsertBeforeOrderTies(sorted, sec) ==
  LET k == Cardinality({i \in DOMAIN sorted : OrderOf(sorted[i]) < OrderOf(sec)})
  IN  SubSeq(sorted, 1, k) \o <<sec>> \o SubSeq(sorted, k + 1, Len(sorted))

\* One step of sections.sort((a, b) => Number(a.order) - Number(b.order)):
\* the sort is stable.
InsertByOrder(sorted, sec) ==
  LET k == Cardinality({i \in DOMAIN sorted : OrderOf(sorted[i]) <= OrderOf(sec)})
  IN  SubSeq(sorted, 1, k) \o <<sec>> \o SubSeq(sorted, k + 1, Len(sorted))

RECURSIVE SortByOrder(_)
SortByOrder(arr) ==
  IF arr = <<>> THEN <<>>
  ELSE InsertByOrder(SortByOrder(SubSeq(arr, 1, Len(arr) - 1)), arr[Len(arr)])

InitLesson ==
  /\ lessonStartedByUser = FALSE
  /\ lessonPc = "idle"
  /\ fetched = <<>>
  /\ lessonSections = <<>>
  /\ lessonIdx = 0
  /\ posted = <<>>
  /\ narrated = <<>>

\* The loop body up to its first await for section i of secs: the entry is
\* appended, and speak(content) is called when there is content.
StartSection(secs, i) ==
  /\ lessonIdx' = i
  /\ posted' = Append(posted, secs[i].id)
  /\ IF secs[i].content
     THEN /\ narrated' = Append(narrated, secs[i].id)
          /\ lessonPc' = "speaking"
     ELSE /\ narrated' = narrated
          /\ lessonPc' = "pause"

\* handleStartLesson up to its await of the fetch.  The button is there while
\* the lesson was not started and the transcript is empty.
HandleStartLesson ==
  /\ ~lessonStartedByUser
  /\ lessonPc = "idle"
  /\ messages = <<>> /\ posted = <<>>
  /\ selectedConversationId # 0
  /\ lessonStartedByUser' = TRUE
  /\ lessonPc' = "fetching"
  /\ UNCHANGED <<fetched, lessonSections, lessonIdx, posted, narrated, exceptLesson>>

\* The fetch resolves with resp: sort, then the first section.
SectionsFetched(resp) ==
  /\ lessonPc = "fetching"
  /\ fetched' = resp
  /\ lessonSections' = SortByOrder(resp)
  /\ IF resp = <<>>
     THEN /\ lessonPc' = "done"
          /\ UNCHANGED <<lessonIdx, posted, narrated>>
     ELSE StartSection(SortByOrder(resp), 1)
  /\ UNCHANGED <<lessonStartedByUser, exceptLesson>>

\* The fetch rejects: the catch of handleStartLesson.
SectionsFetchFailed ==
  /\ lessonPc = "fetching"
  /\ lessonPc' = "failed"
  /\ UNCHANGED <<lessonStartedByUser, fetched, lessonSections, lessonIdx, posted,
                 narrated, exceptLesson>>

\* await speak(content) settles: resolved, the loop polls isSpeakingRef;
\* rejected, the catch logs and the loop goes to its pause.
LessonSpeakSettled(ok) ==
  /\ lessonPc = "speaking"
  /\ lessonPc' = IF ok THEN "polling" ELSE "pause"
  /\ UNCHANGED <<lessonStartedByUser, fetched, lessonSections, lessonIdx, posted,
                 narrated, exceptLesson>>

\* The poll ends: isSpeakingRef is false or two minutes have passed.
LessonPollDone ==
  /\ lessonPc = "polling"
  /\ lessonPc' = "pause"
  /\ UNCHANGED <<lessonStartedByUser, fetched, lessonSections, lessonIdx, posted,
                 narrated, exceptLesson>>

\* The pause of 1 to 3 s ends: the next section, or the end of the loop.
LessonPauseDone ==
  /\ lessonPc = "pause"
  /\ IF lessonIdx < Len(lessonSections)
     THEN StartSection(lessonSections, lessonIdx + 1)
     ELSE /\ lessonPc' = "done"
          /\ UNCHANGED <<lessonIdx, posted, narrated>>
  /\ UNCHANGED <<lessonStartedByUser, fetched, lessonSections, exceptLesson>>

\* The lesson's events and the Stop button.
NextLesson ==
  \/ HandleStartLesson
  \/ \E resp \in Responses : SectionsFetched(resp)
  \/ SectionsFetchFailed
  \/ \E ok \in BOOLEAN : LessonSpeakSettled(ok)
  \/ LessonPollDone
  \/ LessonPauseDone
  \/ HandleStop

\* ======================================================= splitIntoChunks
\* Texts are sequences of characters over a letter, a space and a full stop.
Chars == {"a", " ", "."}
Texts == UNION {[1..k -> Chars] : k \in 0..MaxText}

IsTerminator(c) == c \in {".", "!", "?", "\n"}

\* The length of the longest prefix of s without a sentence terminator.
RECURSIVE BodyLen(_)
BodyLen(s) ==
  IF s = <<>> \/ IsTerminator(Head(s)) THEN 0 ELSE 1 + BodyLen(Tail(s))

\* text.match(/[^.!?\n]+[.!?\n]?/g): from left to right, each longest run of
\* non-terminators with the one terminator after it, if any; a terminator
\* with no such run before it is in no match.
RECURSIVE MatchSentences(_)
MatchSentences(t) ==
  IF t = <<>> THEN <<>>
  ELSE IF IsTerminator(Head(t)) THEN MatchSentences(Tail(t))
  ELSE LET n == BodyLen(t)
           m == IF n < Len(t) THEN n + 1 ELSE n
       IN <<SubSeq(t, 1, m)>> \o MatchSentences(SubSeq(t, m + 1, Len(t)))

\* The length of the longest prefix of s without white space, and of white
\* space only.
RECURSIVE WordLen(_)
WordLen(s) ==
  IF s = <<>> \/ IsSpace(Head(s)) THEN 0 ELSE 1 + WordLen(Tail(s))

RECURSIVE SpaceLen(_)
SpaceLen(s) ==
  IF s = <<>> \/ ~IsSpace(Head(s)) THEN 0 ELSE 1 + SpaceLen(Tail(s))

\* s.split(/(\s+)/): the pieces between the runs of white space, with the
\* runs themselves in between; a leading or trailing run gives an empty piece.
RECURSIVE SplitWords(_)
SplitWords(s) ==
  LET n == WordLen(s) IN
  IF n = Len(s) THEN <<s>>
  ELSE LET rest == SubSeq(s, n + 1, Len(s))
           k == SpaceLen(rest)
       IN <<SubSeq(s, 1, n), SubSeq(rest, 1, k)>>
            \o SplitWords(SubSeq(rest, k + 1, Len(rest)))

\* c.trim()
RECURSIVE TrimStart(_)
TrimStart(s) ==
  IF s # <<>> /\ IsSpace(Head(s)) THEN TrimStart(Tail(s)) ELSE s

RECURSIVE TrimEnd(_)
TrimEnd(s) ==
  IF s # <<>> /\ IsSpace(s[Len(s)]) THEN TrimEnd(SubSeq(s, 1, Len(s) - 1)) ELSE s

\* if (current) chunks.push(current)
PushCurrent(st) ==
  IF st.current # <<>> THEN Append(st.chunks, st.current) ELSE st.chunks

\* The loop over the words of a sentence longer than maxLen.
RECURSIVE WordLoop(_, _, _)
WordLoop(st, words, maxLen) ==
  IF words = <<>> THEN st
  ELSE LET w == Head(words)
           next == IF Len(st.current \o w) <= maxLen
                   THEN [st EXCEPT !.current = @ \o w]
                   ELSE [chunks |-> PushCurrent(st), current |-> w]
       IN WordLoop(next, Tail(words), maxLen)

\* The loop over the sentences.
RECURSIVE SentenceLoop(_, _, _)
SentenceLoop(st, sentences, maxLen) ==
  IF sentences = <<>> THEN st
  ELSE LET s == Head(sentences)
           next == IF Len(st.current \o s) <= maxLen
                   THEN [st EXCEPT !.current = @ \o s]
                   ELSE IF Len(s) <= maxLen
                   THEN [chunks |-> PushCurrent(st), current |-> s]
                   ELSE WordLoop([chunks |-> PushCurrent(st), current |-> <<>>],
                                 SplitWords(s), maxLen)
       IN SentenceLoop(next, Tail(sentences), maxLen)

splitIntoChunks(text, maxLen) ==
  IF text = <<>> \/ Len(text) <= maxLen THEN <<text>>
  ELSE LET matches == MatchSentences(text)
           sentences == IF matches = <<>> THEN <<text>> ELSE matches
           st == SentenceLoop([chunks |-> <<>>, current |-> <<>>], sentences, maxLen)
           all == PushCurrent(st)
           trimmed == [i \in DOMAIN all |-> TrimEnd(TrimStart(all[i]))]
       IN SelectSeq(trimmed, LAMBDA c : c # <<>>)

InitSplit(t, m) ==
  /\ itemText = t
  /\ maxChunkLength = m
  /\ itemChunks = <<>>
  /\ splitPc = "input"

\* const chunks = splitIntoChunks(item.text, maxChunkLength)
SplitCall ==
  /\ splitPc = "input"
  /\ itemChunks' = splitIntoChunks(itemText, maxChunkLength)
  /\ splitPc' = "split"
  /\ UNCHANGED <<itemText, maxChunkLength, exceptSplit>>

NextSplit ==
  \/ SplitCall

\* ============================================ the chat input's speech flow
InitTts ==
  /\ ttsPc = "idle"
  /\ ttsJobs = <<>>
  /\ ttsToasts = 0

\* What await speak() gives for a settled job: processQueue resolves every
\* job whose try block ends with { success: true } and no error.
SpeakResult(j) == [success |-> TRUE, error |-> "none"]

\* The mutation's onSuccess, from its speech part to its first await: nothing
\* when there is no SDK yet, else speakAzure(finalText).
TtsStart(n, isAzureReady) ==
  /\ ttsPc \in {"idle", "done"}
  /\ Len(jobs) < MaxSpeak
  /\ ttsToasts' = 0
  /\ IF isAzureReady
     THEN /\ ttsPc' = "first"
          /\ ttsJobs' = <<Len(jobs) + 1>>
          /\ SetSpeechRefs(SpeakRefs(SpeechRec, n))
     ELSE /\ ttsPc' = "done"
          /\ ttsJobs' = <<>>
          /\ UNCHANGED speechVars
  /\ UNCHANGED exceptTts

\* The flow resumes from its await: of the first speak, of the 500 ms delay,
\* or of the retry.  A rejected speak goes to the catch: stopAll and a toast.
TtsResume ==
  /\ ttsPc \in {"first", "delay", "retry"}
  /\ ttsPc # "delay" => jobs[ttsJobs[Len(ttsJobs)]].promise # "pending"
  /\ LET j == ttsJobs[Len(ttsJobs)]
         res == SpeakResult(j)
     IN IF ttsPc = "delay"
        THEN /\ Len(jobs) < MaxSpeak
             /\ ttsPc' = "retry"
             /\ ttsJobs' = Append(ttsJobs, Len(jobs) + 1)
             /\ SetSpeechRefs(SpeakRefs(SpeechRec, jobs[j].chunks))
             /\ UNCHANGED ttsToasts
        ELSE IF jobs[j].promise = "rejected"
        THEN /\ ttsPc' = "done"
             /\ ttsToasts' = ttsToasts + 1
             /\ SetSpeechRefs(StopAllRefs(SpeechRec))
             /\ UNCHANGED ttsJobs
        ELSE IF res.success \/ (ttsPc = "first" /\ res.error = "none")
        THEN /\ ttsPc' = "done"
             /\ UNCHANGED <<speechVars, ttsJobs, ttsToasts>>
        ELSE IF ttsPc = "first" /\ res.error = "disposed"
        THEN /\ ttsPc' = "delay"
             /\ SetSpeechRefs(StopAllRefs(SpeechRec))
             /\ UNCHANGED <<ttsJobs, ttsToasts>>
        ELSE /\ ttsPc' = "done"
             /\ ttsToasts' = ttsToasts + 1
             /\ SetSpeechRefs(StopAllRefs(SpeechRec))
             /\ UNCHANGED ttsJobs
  /\ UNCHANGED exceptTts

NextTts ==
  \/ \E n \in 1..MaxChunks, r \in BOOLEAN : TtsStart(n, r)
  \/ TtsResume
  \/ \E w \in JobIds : SynthSuccess(w, <<>>)
  \/ \E w \in JobIds, d \in BOOLEAN : SynthError(w, d)
  \/ \E w \in JobIds : CanPlayThrough(w)
  \/ \E w \in JobIds, p \in BOOLEAN : ResumeDone(w, p)
  \/ \E w \in JobIds : AudioEnded(w, 0)
  \/ \E w \in JobIds : AudioError(w)
  \/ \E w \in JobIds : PauseDone(w)

\* ================================================ ClassRoomPage transcript
\* The entries of a fetched history after the mapping: ids of the server
\* (101, 102: none that the page makes), texts that no unit of the page's
\* queue is part of.
Histories ==
  { <<>>,
    <<[id |-> 101, role |-> "user", text |-> <<>>],
      [id |-> 102, role |-> "assistant", text |-> <<>>]>> }

\* The page with its first history loaded and the effect's timer gone.
InitTranscript ==
  /\ switchTimer = FALSE
  /\ switchRefetches = 0
  /\ historyApplied = 0
  /\ asked = {}
  /\ unitConv = <<>>
  /\ questions = 0
  /\ convChanges = 0

\* handleSubmit in the chat input: the user's message is shown
\* (ai-chat:user_message) and the mutation is sent for the selected
\* conversation.
AskQuestion ==
  /\ selectedConversationId # 0
  /\ questions < MaxQuestions
  /\ questions' = questions + 1
  /\ asked' = asked \cup {selectedConversationId}
  /\ messages' = Append(messages, [id |-> Len(messages) + 1, role |-> "user",
                                   text |-> <<>>])
  /\ UNCHANGED <<isStreaming, streamingQueueRef, isProcessingQueueRef, cancelled,
                 streamingMessageIdRef, pendingRefetchAfterStreamingRef,
                 selectedConversationId, refetchTimers, refetches, drains,
                 nextUnit, dropped, stopPc>>
  /\ UNCHANGED <<switchTimer, switchRefetches, historyApplied, unitConv, convChanges>>
  /\ UNCHANGED exceptTranscript

\* The mutation of a question of conversation c succeeds and dispatches a
\* chunk of k units: ai-chat:assistant_chunk carries the text and nothing else.
AssistantChunk(c, k) ==
  /\ c \in asked
  /\ OnChunkRefs(k)
  /\ unitConv' = unitConv \o [i \in 1..k |-> c]
  /\ UNCHANGED <<switchTimer, switchRefetches, historyApplied, asked, questions,
                 convChanges>>
  /\ UNCHANGED exceptTranscript

\* The end of that answer: ai-chat:assistant_message or ai-chat:assistant_done.
AssistantFinal(c, k) ==
  /\ c \in asked
  /\ OnFinalRefs(k)
  /\ unitConv' = unitConv \o [i \in 1..k |-> c]
  /\ asked' = asked \ {c}
  /\ UNCHANGED <<switchTimer, switchRefetches, historyApplied, questions, convChanges>>
  /\ UNCHANGED exceptTranscript

\* selectedConversationId changes to c and the conversation effect runs:
\* cancel, empty the queue, arm the 80 ms timer (the cleanup has cleared the
\* one before).
SelectConversation(c) ==
  /\ c # selectedConversationId
  /\ convChanges < MaxSwitches
  /\ convChanges' = convChanges + 1
  /\ selectedConversationId' = c
  /\ cancelled' = TRUE
  /\ streamingQueueRef' = <<>>
  /\ dropped' = dropped \cup Range(streamingQueueRef)
  /\ switchTimer' = TRUE
  /\ UNCHANGED <<messages, isStreaming, isProcessingQueueRef, streamingMessageIdRef,
                 pendingRefetchAfterStreamingRef, refetchTimers, refetches, drains,
                 nextUnit, stopPc>>
  /\ UNCHANGED <<switchRefetches, historyApplied, asked, unitConv, questions>>
  /\ UNCHANGED exceptTranscript

\* The 80 ms timer fires: the flag is reset; refetchHistory() with a
\* conversation selected, setMessages([]) with none.
SwitchTimerFire ==
  /\ switchTimer
  /\ switchTimer' = FALSE
  /\ cancelled' = FALSE
  /\ IF selectedConversationId # 0
     THEN /\ switchRefetches' = switchRefetches + 1
          /\ UNCHANGED messages
     ELSE /\ messages' = <<>>
          /\ UNCHANGED switchRefetches
  /\ UNCHANGED <<isStreaming, streamingQueueRef, isProcessingQueueRef,
                 streamingMessageIdRef, pendingRefetchAfterStreamingRef,
                 selectedConversationId, refetchTimers, refetches, drains,
                 nextUnit, dropped, stopPc>>
  /\ UNCHANGED <<historyApplied, asked, unitConv, questions, convChanges>>
  /\ UNCHANGED exceptTranscript

\* A refetch has given a new historyMessages h: the mapping effect runs
\* setMessages(mapped).
HistoryArrived(h) ==
  /\ historyApplied < refetches + switchRefetches
  /\ historyApplied' = historyApplied + 1
  /\ messages' = h
  /\ UNCHANGED <<isStreaming, streamingQueueRef, isProcessingQueueRef, cancelled,
                 streamingMessageIdRef, pendingRefetchAfterStreamingRef,
                 selectedConversationId, refetchTimers, refetches, drains,
                 nextUnit, dropped, stopPc>>
  /\ UNCHANGED <<switchTimer, switchRefetches, asked, unitConv, questions, convChanges>>
  /\ UNCHANGED exceptTranscript

NextTranscript ==
  \/ AskQuestion
  \/ \E c \in Conversations, k \in 1..MaxToks : AssistantChunk(c, k)
  \/ \E c \in Conversations, k \in 0..MaxToks : AssistantFinal(c, k)
  \/ DrainWake
  \/ HandleStop
  \/ RefetchTimerFire
  \/ \E c \in Conversations \cup {0} : SelectConversation(c)
  \/ SwitchTimerFire
  \/ \E h \in Histories : HistoryArrived(h)

\* ============================= the two speech pipelines of the classroom
\* ClassRoomPage and the chat input each call useTeacherSpeech(): two sets of
\* refs, two queues.  The chat input's instance is the one of the speech
\* variables; of ClassRoomPage's instance, which narrates the lesson, only
\* its audio player is kept.
InitClassroom ==
  /\ lessonAudio = "none"

\* The lesson instance's oncanplaythrough for a chunk of the section being
\* narrated: play().
NarrationPlay ==
  /\ lessonPc = "speaking"
  /\ lessonAudio = "none"
  /\ lessonAudio' = "playing"
  /\ UNCHANGED <<lessonVars, exceptClassroom>>

\* The lesson instance's onended.
NarrationEnded ==
  /\ lessonAudio = "playing"
  /\ lessonAudio' = "none"
  /\ UNCHANGED <<lessonVars, exceptClassroom>>

\* The lesson's await speak(content) settles, no chunk playing.
NarrationSettled(ok) ==
  /\ lessonAudio = "none"
  /\ LessonSpeakSettled(ok)

\* Lessons of at most one section.
ShortResponses == {r \in Responses : Len(r) <= 1}

NextClassroom ==
  \/ HandleStartLesson
  \/ \E resp \in ShortResponses : SectionsFetched(resp)
  \/ NarrationPlay
  \/ NarrationEnded
  \/ \E ok \in BOOLEAN : NarrationSettled(ok)
  \/ LessonPollDone
  \/ LessonPauseDone
  \/ \E n \in 1..MaxChunks, r \in BOOLEAN : TtsStart(n, r)
  \/ TtsResume
  \/ \E w \in JobIds : SynthSuccess(w, <<>>)
  \/ \E w \in JobIds : CanPlayThrough(w)
  \/ \E w \in JobIds, p \in BOOLEAN : ResumeDone(w, p)
  \/ \E w \in JobIds : AudioEnded(w, 0)
  \/ \E w \in JobIds : PauseDone(w)

\* ================================================= tokenize and the pacer
STREAM_BASE_DELAY == 60

\* The base delays tried: none, the page's, and two near the ceiling.
BaseDelays == {0, STREAM_BASE_DELAY, 200, 230}

\* text.match(/\S+\s*/g): from left to right, each longest run without white
\* space with the white space after it; white space before the first run is
\* in no match.
RECURSIVE MatchTokens(_)
MatchTokens(t) ==
  IF t = <<>> THEN <<>>
  ELSE IF IsSpace(Head(t)) THEN MatchTokens(Tail(t))
  ELSE LET n == WordLen(t)
           k == SpaceLen(SubSeq(t, n + 1, Len(t)))
       IN <<SubSeq(t, 1, n + k)>> \o MatchTokens(SubSeq(t, n + k + 1, Len(t)))

tokenize(text) ==
  IF text = <<>> THEN <<>>
  ELSE LET matches == MatchTokens(text)
       IN IF matches = <<>> THEN <<text>> ELSE matches

\* base + Math.max(0, token.trim().length) * 8, with no ceiling.
ComputedDelayUncapped(token, base) ==
  LET n == Len(TrimEnd(TrimStart(token)))
  IN base + (IF n > 0 THEN n ELSE 0) * 8

\* Math.min(220, base + Math.max(0, token.trim().length) * 8)
ComputedDelay(token, base) ==
  LET n == Len(TrimEnd(TrimStart(token)))
      d == base + (IF n > 0 THEN n ELSE 0) * 8
  IN IF 220 < d THEN 220 ELSE d

InitToken(t, b) ==
  /\ tokText = t
  /\ baseDelay = b
  /\ tokens = <<>>
  /\ delays = <<>>
  /\ tokPc = "input"

\* enqueueText: const toks = tokenize(text)
TokenizeCall ==
  /\ tokPc = "input"
  /\ tokens' = tokenize(tokText)
  /\ tokPc' = "tokenized"
  /\ UNCHANGED <<tokText, baseDelay, delays, exceptToken>>

\* The drain loop's delay for each of the tokens.
PaceTokens ==
  /\ tokPc = "tokenized"
  /\ delays' = [i \in DOMAIN tokens |-> ComputedDelay(tokens[i], baseDelay)]
  /\ tokPc' = "paced"
  /\ UNCHANGED <<tokText, baseDelay, tokens, exceptToken>>

NextToken ==
  \/ TokenizeCall
  \/ PaceTokens

\* ============================================================ note autosave
\* features/classroom/hooks/useAutosave.ts and the NoteWindow that uses it.
\* A note and a draft are records of title and content; Null stands for the
\* null of either.  Every render builds a new onSave closing over that
\* render's selectedNote and draft, and a new trigger closing over that
\* onSave; a state update made by a handler is seen by the next render only.
Null == [null |-> TRUE]

NoteTexts == {"a", "b"}

\* The notes are loaded or not; the sync effect has copied the selected note
\* into the draft; no timer is armed and no update has been sent.
InitAutosave(n) ==
  /\ selectedNote = n
  /\ draft = n
  /\ timeoutRef = 0
  /\ autosaveTimer = Null
  /\ saves = <<>>
  /\ pendingUpdates = <<>>
  /\ noteUnmounted = FALSE
  /\ edits = 0

\* enabled: !!selectedNote && !!draft, of the render the hook was called in.
AutosaveEnabled == selectedNote # Null /\ draft # Null

\* draft.title !== selectedNote.title || draft.content !== selectedNote.content
HasChanges(n, d) == d.title # n.title \/ d.content # n.content

\* updateNoteMutation.mutate: onMutate writes the input into the cached note,
\* the selected note becomes a new object and the sync effect copies it into
\* the draft.
MutateRefs(input) ==
  /\ saves' = Append(saves, input)
  /\ pendingUpdates' = Append(pendingUpdates,
                              [previous |-> selectedNote, input |-> input])
  /\ selectedNote' = IF selectedNote = Null THEN Null ELSE input
  /\ draft' = IF selectedNote = Null THEN draft ELSE input

\* onSave of the render whose selectedNote is n and whose draft is d.
OnSaveRefs(n, d) ==
  IF n # Null /\ d # Null /\ HasChanges(n, d)
  THEN MutateRefs([title |-> d.title, content |-> d.content])
  ELSE UNCHANGED <<saves, pendingUpdates, selectedNote, draft>>

\* trigger() of the current render: nothing when not enabled; otherwise the
\* pending timer is cleared and a new one is armed whose callback is this
\* render's onSave.
TriggerRefs ==
  IF ~AutosaveEnabled
  THEN UNCHANGED <<timeoutRef, autosaveTimer>>
  ELSE /\ timeoutRef' = edits + 1
       /\ autosaveTimer' = [note |-> selectedNote, draft |-> draft]

HandleTitleChange(value) ==
  /\ ~noteUnmounted
  /\ edits < MaxEdits
  /\ edits' = edits + 1
  /\ draft' = IF draft # Null THEN [draft EXCEPT !.title = value]
              ELSE [title |-> value, content |-> ""]
  /\ TriggerRefs
  /\ UNCHANGED <<selectedNote, saves, pendingUpdates, noteUnmounted, exceptAutosave>>

HandleContentChange(value) ==
  /\ ~noteUnmounted
  /\ edits < MaxEdits
  /\ edits' = edits + 1
  /\ draft' = IF draft # Null THEN [draft EXCEPT !.content = value]
              ELSE [title |-> "", content |-> value]
  /\ TriggerRefs
  /\ UNCHANGED <<selectedNote, saves, pendingUpdates, noteUnmounted, exceptAutosave>>

\* The armed timer's callback: the onSave it was armed with.  timeoutRef
\* keeps the id of the timer that has fired.
AutosaveTimerFire ==
  /\ autosaveTimer # Null
  /\ autosaveTimer' = Null
  /\ OnSaveRefs(autosaveTimer.note, autosaveTimer.draft)
  /\ UNCHANGED <<timeoutRef, noteUnmounted, edits, exceptAutosave>>

\* handleSaveNow: flush() is cancel() and then, when enabled, the current
\* render's onSave.
HandleSaveNow ==
  /\ ~noteUnmounted
  /\ timeoutRef' = 0
  /\ autosaveTimer' = IF timeoutRef # 0 THEN Null ELSE autosaveTimer
  /\ IF AutosaveEnabled
     THEN OnSaveRefs(selectedNote, draft)
     ELSE UNCHANGED <<saves, pendingUpdates, selectedNote, draft>>
  /\ UNCHANGED <<noteUnmounted, edits, exceptAutosave>>

\* The update settles: on an error the cached note is put back to what it
\* was before the update, on success the refetched note is the saved one;
\* either way the selected note is a new object and the sync effect copies
\* it into the draft of a mounted window.
UpdateSettled(ok) ==
  /\ pendingUpdates # <<>>
  /\ pendingUpdates' = Tail(pendingUpdates)
  /\ LET u == Head(pendingUpdates)
         n == IF ok THEN u.input ELSE u.previous
     IN  /\ selectedNote' = n
         /\ draft' = IF noteUnmounted THEN draft ELSE n
  /\ UNCHANGED <<timeoutRef, autosaveTimer, saves, noteUnmounted, edits,
                 exceptAutosave>>

\* The hook's cleanup: cancel().
NoteUnmount ==
  /\ ~noteUnmounted
  /\ noteUnmounted' = TRUE
  /\ timeoutRef' = 0
  /\ autosaveTimer' = IF timeoutRef # 0 THEN Null ELSE autosaveTimer
  /\ UNCHANGED <<selectedNote, draft, saves, pendingUpdates, edits, exceptAutosave>>

NextAutosave ==
  \/ \E value \in NoteTexts : HandleTitleChange(value)
  \/ \E value \in NoteTexts : HandleContentChange(value)
  \/ AutosaveTimerFire
  \/ HandleSaveNow
  \/ \E ok \in BOOLEAN : UpdateSettled(ok)
  \/ NoteUnmount

\* ========================================================= specifications
InitSpeechSpec ==
  /\ InitSpeech
  /\ InitStream /\ selectedConversationId = 1
  /\ InitMerge(<<>>, <<>>)
  /\ InitSocket /\ conversationId = 1 /\ currentUserId = "u1"
  /\ InitLesson
  /\ InitSplit(<<>>, 1)
  /\ InitTts
  /\ InitTranscript
  /\ InitClassroom
  /\ InitToken(<<>>, STREAM_BASE_DELAY)
  /\ InitAutosave(Null)

SpecSpeech == InitSpeechSpec /\ [][NextSpeech]_vars

InitVisemeSpec ==
  /\ InitSpeechSpec
  /\ sdkAvailable

SpecViseme == InitVisemeSpec /\ [][NextViseme]_vars

InitStreamSpec ==
  /\ InitSpeech /\ sdkAvailable = TRUE
  /\ InitStream
  /\ InitMerge(<<>>, <<>>)
  /\ InitSocket /\ conversationId = 1 /\ currentUserId = "u1"
  /\ InitLesson
  /\ InitSplit(<<>>, 1)
  /\ InitTts
  /\ InitTranscript
  /\ InitClassroom
  /\ InitToken(<<>>, STREAM_BASE_DELAY)
  /\ InitAutosave(Null)

SpecStream == InitStreamSpec /\ [][NextStream]_vars

InitMergeSpec ==
  /\ InitSpeech /\ sdkAvailable = TRUE
  /\ InitStream /\ selectedConversationId = 1
  /\ \E a \in SeqsUpTo(MaxLen) : \E b \in SeqsUpTo(MaxLen - Len(a)) : InitMerge(a, b)
  /\ InitSocket /\ conversationId = 1 /\ currentUserId = "u1"
  /\ InitLesson
  /\ InitSplit(<<>>, 1)
  /\ InitTts
  /\ InitTranscript
  /\ InitClassroom
  /\ InitToken(<<>>, STREAM_BASE_DELAY)
  /\ InitAutosave(Null)

SpecMerge == InitMergeSpec /\ [][NextMerge]_vars

InitSocketSpec ==
  /\ InitSpeech /\ sdkAvailable = TRUE
  /\ InitStream /\ selectedConversationId = 1
  /\ InitMerge(<<>>, <<>>)
  /\ InitSocket
  /\ InitLesson
  /\ InitSplit(<<>>, 1)
  /\ InitTts
  /\ InitTranscript
  /\ InitClassroom
  /\ InitToken(<<>>, STREAM_BASE_DELAY)
  /\ InitAutosave(Null)

SpecSocket == InitSocketSpec /\ [][NextSocket]_vars

InitChatSpec ==
  /\ InitSpeech /\ sdkAvailable = TRUE
  /\ InitStream /\ selectedConversationId = 1
  /\ InitMerge(<<>>, <<>>)
  /\ InitSocket
  /\ InitLesson
  /\ InitSplit(<<>>, 1)
  /\ InitTts
  /\ InitTranscript
  /\ InitClassroom
  /\ InitToken(<<>>, STREAM_BASE_DELAY)
  /\ InitAutosave(Null)

SpecChat == InitChatSpec /\ [][NextChat]_vars

InitLessonSpec ==
  /\ InitSpeech /\ sdkAvailable = TRUE
  /\ InitStream /\ selectedConversationId = 1
  /\ InitMerge(<<>>, <<>>)
  /\ InitSocket /\ conversationId = 1 /\ currentUserId = "u1"
  /\ InitLesson
  /\ InitSplit(<<>>, 1)
  /\ InitTts
  /\ InitTranscript
  /\ InitClassroom
  /\ InitToken(<<>>, STREAM_BASE_DELAY)
  /\ InitAutosave(Null)

SpecLesson == InitLessonSpec /\ [][NextLesson]_vars

InitSplitSpec ==
  /\ InitSpeech /\ sdkAvailable = TRUE
  /\ InitStream /\ selectedConversationId = 1
  /\ InitMerge(<<>>, <<>>)
  /\ InitSocket /\ conversationId = 1 /\ currentUserId = "u1"
  /\ InitLesson
  /\ \E t \in Texts, m \in 1..MaxChunkLength : InitSplit(t, m)
  /\ InitTts
  /\ InitTranscript
  /\ InitClassroom
  /\ InitToken(<<>>, STREAM_BASE_DELAY)
  /\ InitAutosave(Null)

SpecSplit == InitSplitSpec /\ [][NextSplit]_vars

InitTtsSpec ==
  /\ InitSpeechSpec

SpecTts == InitTtsSpec /\ [][NextTts]_vars

InitTranscriptSpec ==
  /\ InitStreamSpec

SpecTranscript == InitTranscriptSpec /\ [][NextTranscript]_vars

InitClassroomSpec ==
  /\ InitLessonSpec

SpecClassroom == InitClassroomSpec /\ [][NextClassroom]_vars

InitTokenSpec ==
  /\ InitSpeech /\ sdkAvailable = TRUE
  /\ InitStream /\ selectedConversationId = 1
  /\ InitMerge(<<>>, <<>>)
  /\ InitSocket /\ conversationId = 1 /\ currentUserId = "u1"
  /\ InitLesson
  /\ InitSplit(<<>>, 1)
  /\ InitTts
  /\ InitTranscript
  /\ InitClassroom
  /\ \E t \in Texts, b \in BaseDelays : InitToken(t, b)
  /\ InitAutosave(Null)

SpecToken == InitTokenSpec /\ [][NextToken]_vars

InitAutosaveSpec ==
  /\ InitSpeech /\ sdkAvailable = TRUE
  /\ InitStream /\ selectedConversationId = 1
  /\ InitMerge(<<>>, <<>>)
  /\ InitSocket /\ conversationId = 1 /\ currentUserId = "u1"
  /\ InitLesson
  /\ InitSplit(<<>>, 1)
  /\ InitTts
  /\ InitTranscript
  /\ InitClassroom
  /\ InitToken(<<>>, STREAM_BASE_DELAY)
  /\ \E n \in {Null, [title |-> "a", content |-> "a"]} : InitAutosave(n)

SpecAutosave == InitAutosaveSpec /\ [][NextAutosave]_vars

\* ------------------------------------------------- claims on the speech queue
Busy(w) == workers[w].pc \in {"synth", "loading", "resuming", "playing", "pause"}

\* A worker holding a job that no stop has touched.
Current(w) == Busy(w) /\ ~jobs[workers[w].job].preStop

\* A suspended worker that some event can still resume: one waiting for a
\* player whose handlers stopAll has removed is resumed by nothing.
CanResume(w) ==
  \/ workers[w].pc \in {"synth", "resuming", "pause"}
  \/ workers[w].pc \in {"loading", "playing"} /\ workers[w].live

Settled(j) == jobs[j].promise # "pending"

\* C1: at most one processQueue worker is active at any time (so at most one
\* utterance is synthesizing or playing), and an utterance is taken up only
\* when every utterance submitted before it is over; stops aside, so only
\* jobs no stop has touched are counted.
C1_SingleWorker ==
  /\ \A w1, w2 \in JobIds : Current(w1) /\ Current(w2) => w1 = w2
  /\ \A w \in JobIds : Current(w) =>
       \A j \in 1..(workers[w].job - 1) : Settled(j) \/ jobs[j].preStop

\* C2: after stop() no audio of an utterance submitted before the stop plays,
\* and the speech state stays idle until the next speak() (synthesizing a
\* further chunk of such an utterance sets it to thinking).
C2_NoPlaybackAfterStop ==
  /\ \A w \in JobIds :
       Busy(w) /\ jobs[workers[w].job].preStop =>
         ~(workers[w].pc = "playing" /\ workers[w].live)
  /\ (\A j \in DOMAIN jobs : jobs[j].preStop) => speechState = "idle"

\* C3: every promise speak() returned settles.  Stated on finite runs: a
\* pending promise is always within reach of the code that settles it, either
\* in the queue or held by a worker that some event can resume.
C3_PromiseReachable ==
  \A j \in DOMAIN jobs :
    ~Settled(j) =>
      \/ \E i \in DOMAIN queueRef : queueRef[i] = j
      \/ \E w \in JobIds : Busy(w) /\ workers[w].job = j /\ CanResume(w)

\* --------------------------------------------- claims on the streaming queue
\* The units enqueued so far that no stop threw away, in enqueue order.
NonDropped ==
  SelectSeq([u \in 1..(nextUnit - 1) |-> u], LAMBDA u : u \notin dropped)

Increasing(seq) == \A i, j \in DOMAIN seq : i < j => seq[i] < seq[j]

C5_SingleFlight ==
  /\ [](drains <= 1 /\ (isProcessingQueueRef <=> drains = 1))
  /\ [](Increasing(Flatten(messages) \o streamingQueueRef))
  /\ [][isProcessingQueueRef /\ nextUnit' # nextUnit =>
          /\ messages' = messages
          /\ drains' = drains
          /\ streamingQueueRef' =
               streamingQueueRef \o [i \in 1..(nextUnit' - nextUnit) |-> nextUnit + i - 1]]_vars

\* A second text was enqueued during a drain: the live message and the queue
\* together hold more units than one text gives.
C5_EnqueuedWhileDraining ==
  /\ isProcessingQueueRef /\ drains = 1 /\ streamingQueueRef # <<>>
  /\ \E i \in DOMAIN messages :
       /\ messages[i].id = streamingMessageIdRef
       /\ Len(messages[i].text) >= 2
       /\ Len(messages[i].text) + Len(streamingQueueRef) > MaxToks

\* C6: the refetch a streaming turn asked for is never executed while a
\* drain is in progress.
C6_RefetchAfterDrain ==
  [][refetches' # refetches => ~isProcessingQueueRef]_vars

\* ------------------------------------------------------ claims on the merge
Inputs == Range(existing) \cup Range(incoming)

WithKey(list, key) == {i \in DOMAIN list : keyFor(list[i]) = key}

SortedByTs(list) == \A i, j \in DOMAIN list : i < j => list[i].ts <= list[j].ts

\* C7: when a temporary and a confirmed message of the two lists share a
\* merge key, the merge holds exactly one entry with that key and that entry
\* is a confirmed message.
C7_MergeDedup ==
  mergePc \in {"merged", "remerged"} =>
    \A t, c \in Inputs :
      IsTemp(t.id) /\ ~IsTemp(c.id) /\ keyFor(t) = keyFor(c) =>
        /\ Cardinality(WithKey(merged, keyFor(t))) = 1
        /\ \A i \in WithKey(merged, keyFor(t)) : ~IsTemp(merged[i].id)

\* A merge whose confirmed message is in existing and whose temporary copy,
\* spelled with other whitespace and stamped later, is in incoming.
C7_TempAfterConfirmed ==
  /\ mergePc = "merged"
  /\ \E i \in DOMAIN existing, j \in DOMAIN incoming :
       /\ ~IsTemp(existing[i].id) /\ IsTemp(incoming[j].id)
       /\ keyFor(existing[i]) = keyFor(incoming[j])
       /\ existing[i].text # incoming[j].text
       /\ incoming[j].ts > existing[i].ts

\* C8: merging incoming again into the merge of existing and incoming gives
\* that merge again, the same messages in the same order.
C8_MergeIdempotent ==
  mergePc = "remerged" => remerged = merged

\* A second merge whose inputs hold two messages of one key and one
\* timestamp, and whose first merge holds two keys with one timestamp.
C8_RemergedWithTies ==
  /\ mergePc = "remerged"
  /\ \E m, n \in Inputs : m # n /\ keyFor(m) = keyFor(n) /\ m.ts = n.ts
  /\ \E i, j \in DOMAIN merged : i < j /\ merged[i].ts = merged[j].ts

\* C9: a temporary and a confirmed copy with one key give the same sequence
\* in whichever order they are merged into a list, and that sequence is
\* sorted by timestamp.
C9_ArrivalOrderIndependent ==
  mergePc = "arrived" =>
    /\ viaTempFirst = viaConfirmedFirst
    /\ SortedByTs(viaTempFirst) /\ SortedByTs(viaConfirmedFirst)

\* ----------------------------------------------------- claims on the socket
\* C10: in a run of connect_errors that name an auth or token problem the
\* hook refreshes the token and reconnects at most reconnectionAttempts times.
C10_ReconnectBound ==
  /\ refreshRun <= reconnectionAttempts
  /\ reconnectRun <= reconnectionAttempts

\* ------------------------------------------------- claims on the chat hook
IdsOf(list, id) == {i \in DOMAIN list : list[i].id = id}

\* C11: when the echo of a sent message has been handled, the list holds
\* exactly one entry for it, the server's, and the temporary entry is gone.
C11_EchoReplacesTemp ==
  [][lastEcho' # lastEcho =>
       /\ IdsOf(chatMessages', lastEcho'[1]) = {}
       /\ Cardinality(IdsOf(chatMessages', lastEcho'[2])) = 1]_vars

Live(s) == sockets[s].listeners /\ sockets[s].status \in {"connecting", "connected"}

\* C12: at most one socket is live (connecting or connected, its listeners
\* attached), and a socket with listeners is the one in socketRef: every
\* connectSocket tears the previous socket down before it makes the new one.
C12_OneLiveSocket ==
  /\ Cardinality({s \in DOMAIN sockets : Live(s)}) <= 1
  /\ \A s \in DOMAIN sockets : sockets[s].listeners => s = socketRef

\* A live socket made by one connectSocket call while the retry timer of a
\* connect_error is still to call another.
C12_OverlappingConnects ==
  /\ socketRef # 0 /\ Live(socketRef)
  /\ Len(sockets) >= 2
  /\ retryTimers # <<>>

\* C13: after the unmount no socket is kept, connecting or connected.
C13_TornDownAfterUnmount ==
  unmounted =>
    /\ socketRef = 0
    /\ \A s \in DOMAIN sockets : sockets[s].status \notin {"connecting", "connected"}

\* C14: when a socket connects while a conversation is selected, the
\* joinConversation it sends names that conversation.
C14_JoinsSelectedConversation ==
  [][\A s \in DOMAIN sockets :
       /\ sockets[s].status = "connecting"
       /\ sockets'[s].status = "connected"
       /\ sockets[s].listeners
       /\ conversationId # 0
       => sockets'[s].room = conversationId]_vars

\* ----------------------------------------------------- claims on the lesson
\* C15: when the user stops while a section is narrated, no later section is
\* posted to the transcript or narrated.
C15_LessonStop ==
  [][(stopPc \in {"speaking", "polling"}) =>
       (posted' = posted /\ narrated' = narrated)]_vars

IdsOfSections(secs) == [i \in DOMAIN secs |-> secs[i].id]

IsPrefix(p, q) == Len(p) <= Len(q) /\ SubSeq(q, 1, Len(p)) = p

PositionIn(list, sec) == CHOOSE i \in DOMAIN list : list[i] = sec

\* C16: the sections are visited in ascending order, ties in fetch order,
\* one after the other and each at most once: a section is posted only when
\* no speak call and no pause of an earlier section is pending.
C16_LessonOrder ==
  /\ [](/\ Len(lessonSections) = Len(fetched)
        /\ Range(lessonSections) = Range(fetched)
        /\ \A i, j \in DOMAIN lessonSections :
             i < j =>
               \/ OrderOf(lessonSections[i]) < OrderOf(lessonSections[j])
               \/ /\ OrderOf(lessonSections[i]) = OrderOf(lessonSections[j])
                  /\ PositionIn(fetched, lessonSections[i]) <
                       PositionIn(fetched, lessonSections[j]))
  /\ [](/\ IsPrefix(posted, IdsOfSections(lessonSections))
        /\ narrated = SelectSeq(posted,
             LAMBDA id : \E sec \in SectionPool : sec.id = id /\ sec.content))
  /\ [][posted' # posted =>
          /\ lessonPc \in {"fetching", "pause"}
          /\ Len(posted') = Len(posted) + 1]_vars

\* A lesson played to its end whose sections came out of order and with two
\* sections of one order.
C16_PlayedUnsortedLesson ==
  /\ lessonPc = "done"
  /\ Len(posted) = MaxSections
  /\ \E i, j \in DOMAIN fetched :
       i < j /\ OrderOf(fetched[i]) > OrderOf(fetched[j])
  /\ \E i, j \in DOMAIN fetched :
       i < j /\ OrderOf(fetched[i]) = OrderOf(fetched[j])

\* ------------------------------------------------- claims on the visemes
\* The entries pushed for job j are non-decreasing across its chunk boundaries.
AcrossChunks(j) ==
  LET a == jobs[j].appended IN
  \A i, k \in DOMAIN a : a[i][1] < a[k][1] => a[i][2] <= a[k][2]

\* C17: within one utterance every entry pushed for chunk i+1 has a cumulative
\* offset at or above every entry pushed for the chunks up to i (the offsets
\* the engine reports for one chunk being non-decreasing).
C17_VisemeTimeline ==
  \A j \in DOMAIN jobs : AcrossChunks(j)

\* The same for the runs in which a single processQueue worker has started.
C17_SingleWorkerTimeline ==
  Cardinality({w \in JobIds : workers[w].pc # "off"}) <= 1 => C17_VisemeTimeline

\* --------------------------------------------- claims on splitIntoChunks
\* C18: every chunk splitIntoChunks returns is at most maxLen characters long,
\* also when a single sentence or a single word is longer than maxLen.
C18_ChunkLength ==
  splitPc = "split" =>
    \A i \in DOMAIN itemChunks : Len(itemChunks[i]) <= maxChunkLength

\* ------------------------------------------- claims on failures of speak
\* C19: when the synthesis or the playback of a chunk of an utterance fails,
\* its speak() does not report success: the promise is rejected or resolved
\* with success false, never resolved with success true.
C19_FailureReported ==
  \A j \in DOMAIN jobs :
    jobs[j].failed # "none" /\ jobs[j].promise = "resolved" => ~SpeakResult(j).success

\* C20: the flow over, a first speak that failed on a disposed synthesizer was
\* retried exactly once, and a second failure was surfaced; any other failure
\* of the first speak was surfaced and not retried; never more than one retry.
C20_DisposedRetriedOnce ==
  ttsPc = "done" /\ ttsJobs # <<>> =>
    LET first == jobs[ttsJobs[1]] IN
    /\ Len(ttsJobs) <= 2
    /\ first.failed = "disposed" =>
         /\ Len(ttsJobs) = 2
         /\ jobs[ttsJobs[2]].failed # "none" => ttsToasts >= 1
    /\ first.failed = "other" \/ first.promise = "rejected" =>
         /\ Len(ttsJobs) = 1
         /\ ttsToasts >= 1

\* --------------------------------------------- claims on the lesson start
\* The fetch of the sections failed, or gave no section.
LessonFetchFailed ==
  \/ lessonPc = "failed"
  \/ lessonPc = "done" /\ fetched = <<>>

\* C21: when the fetch of the sections fails or gives no section, the lesson
\* is not started (lessonStartedByUser is false, so that it can be started
\* again) and no section is posted or narrated.
C21_LessonNotStarted ==
  LessonFetchFailed =>
    /\ ~lessonStartedByUser
    /\ posted = <<>>
    /\ narrated = <<>>

\* ------------------------------------------------ claims on the transcript
\* The ids of the messages displayed.
Displayed(ms) == {ms[i].id : i \in DOMAIN ms}

\* C22: when a fetched history is set, every message displayed before (a
\* posted entry, the live message of a stream in progress) is still displayed.
C22_HistoryKeepsDisplayed ==
  [][historyApplied' # historyApplied =>
       Displayed(messages) \subseteq Displayed(messages')]_vars

\* C27: whenever no drain is in progress the unit queue is empty.
C27_IdleQueueEmpty ==
  ~isProcessingQueueRef => streamingQueueRef = <<>>

\* C28: a unit appended to the transcript answers a question of the
\* conversation selected at that moment.
C28_NoForeignUnits ==
  [][\A u \in Range(Flatten(messages')) \ Range(Flatten(messages)) :
       unitConv'[u] = selectedConversationId']_vars

\* --------------------------------------- claims on the two speech pipelines
\* The audio handles that are playing: the chat input's, and the lesson's.
PlayingHandles ==
  Cardinality({w \in JobIds : workers[w].pc = "playing" /\ workers[w].live})
    + (IF lessonAudio = "playing" THEN 1 ELSE 0)

\* C23: at most one audio handle is playing at any time: the spoken answer to
\* a question does not overlap the lesson's narration or another utterance.
C23_OneAudioPlaying ==
  PlayingHandles <= 1

\* ------------------------------------------- claims on tokenize and the pacer
RECURSIVE Concat(_)
\* The tokens joined in order.
Concat(ts) == IF ts = <<>> THEN <<>> ELSE Head(ts) \o Concat(Tail(ts))

\* C24: tokenize("") is empty, and the tokens of a text joined in order are
\* the text, also with leading white space, runs of it, or nothing else.
C24_TokenizeRoundTrip ==
  tokPc # "input" =>
    /\ tokText = <<>> => tokens = <<>>
    /\ Concat(tokens) = tokText

\* C25: the delay computed for a token is min(220, base + 8 * its trimmed
\* length), so never above 220 ms, whatever the non-negative base.
C25_PacerBound ==
  tokPc = "paced" =>
    \A i \in DOMAIN tokens :
      LET n == Len(TrimEnd(TrimStart(tokens[i])))
          d == baseDelay + 8 * n
      IN /\ delays[i] <= 220
         /\ d <= 220 => delays[i] = d
         /\ d >= 220 => delays[i] = 220

\* A token whose uncapped delay is above the ceiling has been paced, and one
\* below it too.
C25_CeilingApplied ==
  /\ tokPc = "paced"
  /\ \E i \in DOMAIN tokens :
       /\ baseDelay + 8 * Len(TrimEnd(TrimStart(tokens[i]))) > 220
       /\ delays[i] = 220
  /\ baseDelay < 220

\* ------------------------------------------------- claims on merge and roles
\* The roles of the messages of a list that have the merge key key.
RolesWithKey(list, key) == {list[i].role : i \in WithKey(list, key)}

\* C26: the merge does not discard a message in favour of one of another
\* role: when a user and an assistant message of the inputs have the same
\* normalized text, the merge holds a message of each role with that text.
C26_RolesKept ==
  mergePc \in {"merged", "remerged"} =>
    \A u, a \in Inputs :
      /\ u.role = "user" /\ a.role = "assistant"
      /\ normalizeText(u.text) # <<>>
      /\ normalizeText(u.text) = normalizeText(a.text)
      => RolesWithKey(merged, keyFor(u)) = {"user", "assistant"}

\* ------------------------------------ claims on the chat hook's conversation
\* C29: every message in the chat hook's list belongs to the conversation
\* that is currently selected.
C29_MessagesOfSelectedConversation ==
  \A i \in DOMAIN chatMessages : chatMessages[i].conversationId = conversationId

\* ------------------------------------------------- claims on the note autosave
\* The armed timer has fired: it is gone and timeoutRef was not cleared.
AutosaveFired ==
  autosaveTimer # Null /\ autosaveTimer' = Null /\ timeoutRef' = timeoutRef

\* C30: when the armed autosave timer fires, what it saves is the latest
\* draft, the edit that armed the timer included: a draft that differs from
\* the selected note is sent as one update.
C30_TimerSavesLatestDraft ==
  [][(AutosaveFired /\ HasChanges(selectedNote, draft))
       => saves' = Append(saves, [title |-> draft.title, content |-> draft.content])]_vars

====
